---- MODULE Spec2Model ----
(***************************************************************************)
(* LinearMCP: a gateway over the Linear SDK client (teams, projects and    *)
(* issues) and a plan templater that selects one of four fixed project     *)
(* plans by the industry string and materialises it as a project, one      *)
(* marker issue per milestone and one issue per issue template.            *)
(*                                                                         *)
(* Two revisions of the class are modelled: "full" is the class of         *)
(* src/src/LinearMCP.ts (lines 56-1264), "basic" is src/unnamed/part_000.  *)
(* They differ in the software template and in the issue description       *)
(* expander; the rest is the same code, line for line.                     *)
(*                                                                         *)
(* Strings are TLA+ strings; Len, \o and SubSeq act on them as on          *)
(* sequences of characters.  An optional field is <<>> when absent         *)
(* (undefined) and <<v>> when it holds v.                                  *)
(***************************************************************************)
EXTENDS Integers, Sequences, FiniteSets, TLC

\* ------------------------------------------------------------------------
\* JavaScript values and string primitives
\* ------------------------------------------------------------------------

undefined == <<>>

Some(v) == <<v>>

UpperCase == {"A", "B", "C", "D", "E", "F", "G", "H", "I", "J", "K", "L", "M", "N", "O", "P", "Q", "R", "S", "T", "U", "V", "W", "X", "Y", "Z"}

LowerOf == [A |-> "a", B |-> "b", C |-> "c", D |-> "d", E |-> "e", F |-> "f", G |-> "g", H |-> "h", I |-> "i", J |-> "j", K |-> "k", L |-> "l", M |-> "m", N |-> "n", O |-> "o", P |-> "p", Q |-> "q", R |-> "r", S |-> "s", T |-> "t", U |-> "u", V |-> "v", W |-> "w", X |-> "x", Y |-> "y", Z |-> "z"]

\* the lower-case form of one character
lowerChar(c) == IF c \in UpperCase THEN LowerOf[c] ELSE c

\* the lower-case form of the characters lo..hi of s
RECURSIVE lowerRange(_, _, _)
lowerRange(s, lo, hi) ==
  IF lo > hi THEN ""
  ELSE IF lo = hi THEN lowerChar(SubSeq(s, lo, lo))
  ELSE LET mid == (lo + hi) \div 2
       IN  lowerRange(s, lo, mid) \o lowerRange(s, mid + 1, hi)

\* String.prototype.toLowerCase
toLowerCase(s) == lowerRange(s, 1, Len(s))

\* String.prototype.includes: needle occurs in s as a contiguous run
includes(s, needle) ==
  \E i \in 1..(Len(s) - Len(needle) + 1) :
    SubSeq(s, i, i + Len(needle) - 1) = needle

\* !x for an optional string: undefined and "" are falsy
Falsy(opt) == opt = undefined \/ opt[1] = ""

\* a || d on strings
OrElse(s, d) == IF s = "" THEN d ELSE s

\* a || d on an optional string
OrElseOpt(opt, d) == IF Falsy(opt) THEN d ELSE opt[1]

\* Array.prototype.join
RECURSIVE join(_, _)
join(arr, sep) ==
  IF Len(arr) = 0 THEN ""
  ELSE IF Len(arr) = 1 THEN arr[1]
  ELSE arr[1] \o sep \o join(Tail(arr), sep)

\* const { technicalRequirements = [] } = params
technicalRequirements(params) ==
  IF params.technicalRequirements = undefined THEN <<>>
  ELSE params.technicalRequirements[1]

\* ------------------------------------------------------------------------
\* Plan templates (the literal tables of the source)
\* ------------------------------------------------------------------------

createSoftwareDevelopmentPlan(params) ==
  [projectDescription |-> params.projectName \o ": A software development project focusing on " \o params.projectScope \o ". This project will implement a comprehensive solution that addresses key challenges in this domain while ensuring scalability, security, and excellent user experience.",
   milestones |-> <<
     [title |-> "Discovery & Analysis",
      description |-> "Understand requirements, analyze the problem domain, and establish project foundations.",
      issues |-> <<
        [title |-> "Stakeholder interviews and requirement gathering",
         description |-> "Conduct structured interviews with all stakeholders to collect detailed requirements, expectations, constraints, and success criteria. Document findings in a comprehensive requirements document.",
         priority |-> 1,
         estimatedHours |-> 10,
         labels |-> <<"discovery", "requirements">>],
        [title |-> "Market and competitor analysis",
         description |-> "Research competing solutions, identify their strengths and weaknesses, analyze market trends, and document opportunities for differentiation and innovation.",
         priority |-> 2,
         estimatedHours |-> 8,
         labels |-> <<"research", "discovery">>],
        [title |-> "User personas and journey mapping",
         description |-> "Create detailed user personas representing target users. Map comprehensive user journeys showing how different personas will interact with the system to accomplish their goals.",
         priority |-> 1,
         estimatedHours |-> 12,
         labels |-> <<"ux", "discovery">>],
        [title |-> "Technical feasibility assessment",
         description |-> "Evaluate technical approaches against requirements, assess risks, explore alternative solutions, and document technology selection decisions with justifications.",
         priority |-> 1,
         estimatedHours |-> 14,
         labels |-> <<"architecture", "planning">>],
        [title |-> "Project charter and scope document",
         description |-> "Create a comprehensive project charter defining scope, objectives, deliverables, timeline, budget, team structure, and governance framework.",
         priority |-> 1,
         estimatedHours |-> 6,
         labels |-> <<"documentation", "planning">>]
      >>],
     [title |-> "Requirements & Planning",
      description |-> "Define detailed requirements, create technical specifications, and establish project timeline.",
      issues |-> <<
        [title |-> "Create detailed user stories and acceptance criteria",
         description |-> "Document comprehensive user stories with acceptance criteria for all main features. Include edge cases, validation rules, and performance expectations for each story.",
         priority |-> 1,
         estimatedHours |-> 16,
         labels |-> <<"documentation", "planning">>],
        [title |-> "Define technical architecture and system design",
         description |-> "Design the system architecture considering " \o OrElse(join(technicalRequirements(params), ", "), "all technical requirements") \o ". Include detailed diagrams for system components, data flows, API specifications, security model, and data models. Document scalability, reliability, and performance considerations.",
         priority |-> 1,
         estimatedHours |-> 24,
         labels |-> <<"architecture", "planning">>],
        [title |-> "Create database schema and data migration plan",
         description |-> "Design comprehensive database schema with tables, relationships, indexing strategy, and validation rules. Develop data migration strategy if updating an existing system.",
         priority |-> 1,
         estimatedHours |-> 12,
         labels |-> <<"database", "architecture">>],
        [title |-> "Set up development infrastructure and environments",
         description |-> "Configure development, staging, testing, and production environments with CI/CD pipelines. Document setup procedures, access controls, and environment configuration details.",
         priority |-> 2,
         estimatedHours |-> 10,
         labels |-> <<"devops", "infrastructure">>],
        [title |-> "Create detailed project roadmap and sprint planning",
         description |-> "Develop a comprehensive project timeline with milestones, deliverables, dependencies, critical path analysis, and resource allocation. Organize user stories into initial sprints.",
         priority |-> 1,
         estimatedHours |-> 8,
         labels |-> <<"planning", "management">>],
        [title |-> "Establish coding standards and development workflows",
         description |-> "Document coding standards, pull request processes, review requirements, testing protocols, and deployment procedures. Set up linting and formatting tools to enforce standards.",
         priority |-> 2,
         estimatedHours |-> 6,
         labels |-> <<"documentation", "process">>]
      >>],
     [title |-> "Design & Prototyping",
      description |-> "Create UI/UX designs and interactive prototypes for key user flows.",
      issues |-> <<
        [title |-> "Develop brand and design system",
         description |-> "Create a comprehensive design system including typography, color palette, spacing guidelines, component library, and interaction patterns. Ensure consistency with brand identity and accessibility standards.",
         priority |-> 1,
         estimatedHours |-> 20,
         labels |-> <<"design", "branding">>],
        [title |-> "Create wireframes for all main screens",
         description |-> "Design low-fidelity wireframes for all core user flows and get stakeholder approval. Include mobile, tablet, and desktop variations where appropriate. Document layout principles and information hierarchy.",
         priority |-> 2,
         estimatedHours |-> 16,
         labels |-> <<"design", "ux">>],
        [title |-> "Develop high-fidelity mockups",
         description |-> "Create detailed visual designs based on approved wireframes, including responsive variations. Apply the design system consistently across all screens. Document design decisions and rationale.",
         priority |-> 2,
         estimatedHours |-> 24,
         labels |-> <<"design", "ui">>],
        [title |-> "Build interactive prototype",
         description |-> "Create clickable prototype demonstrating key user flows for testing and stakeholder review. Include critical interactions, form validations, navigation patterns, and conditional behaviors.",
         priority |-> 2,
         estimatedHours |-> 16,
         labels |-> <<"prototype", "ux">>],
        [title |-> "Conduct usability testing on prototypes",
         description |-> "Perform usability testing with representative users, record findings, identify issues, and incorporate feedback into design revisions. Document testing methodology and results.",
         priority |-> 1,
         estimatedHours |-> 12,
         labels |-> <<"testing", "ux">>],
        [title |-> "Create UI component specifications for developers",
         description |-> "Document detailed specifications for UI components including states, behaviors, animations, accessibility requirements, and implementation guidelines for development team.",
         priority |-> 2,
         estimatedHours |-> 12,
         labels |-> <<"documentation", "ui">>]
      >>],
     [title |-> "Core Development",
      description |-> "Implement the fundamental features and establish the technical foundation.",
      issues |-> <<
        [title |-> "Set up project repository and codebase structure",
         description |-> "Initialize repository with proper structure, README, contribution guidelines, and initial configuration. Set up branching strategy, protection rules, and automation workflows.",
         priority |-> 1,
         estimatedHours |-> 4,
         labels |-> <<"setup", "development">>],
        [title |-> "Implement core application architecture",
         description |-> "Build foundational architectural components following the design specifications. Establish patterns for state management, dependency injection, error handling, and logging.",
         priority |-> 1,
         estimatedHours |-> 20,
         labels |-> <<"architecture", "development">>],
        [title |-> "Set up database schema and migrations",
         description |-> "Design and implement database structure with proper indexing, relationships, and optimization. Create migration framework and initial schema migrations. Implement data access layer with proper abstractions.",
         priority |-> 1,
         estimatedHours |-> 12,
         labels |-> <<"backend", "database">>],
        [title |-> "Implement authentication and authorization system",
         description |-> "Create secure user authentication with role-based permissions, password policies, session management, and account recovery. Implement proper authorization checks throughout the application.",
         priority |-> 1,
         estimatedHours |-> 16,
         labels |-> <<"security", "backend">>],
        [title |-> "Develop core API endpoints and service layer",
         description |-> "Implement RESTful or GraphQL API endpoints for core functionality with proper validation, error handling, and documentation. Create service layer with business logic separate from controllers.",
         priority |-> 1,
         estimatedHours |-> 24,
         labels |-> <<"backend", "api">>],
        [title |-> "Implement base UI components and framework",
         description |-> "Build reusable UI component library according to design system specifications. Implement layout components, form controls, navigation elements, and utility components.",
         priority |-> 1,
         estimatedHours |-> 20,
         labels |-> <<"frontend", "components">>],
        [title |-> "Set up automated testing framework",
         description |-> "Configure testing frameworks for unit, integration, and end-to-end tests. Create initial test cases and documentation for test patterns. Set up test automation in CI pipeline.",
         priority |-> 2,
         estimatedHours |-> 10,
         labels |-> <<"testing", "quality">>],
        [title |-> "Implement logging, monitoring, and error tracking",
         description |-> "Set up comprehensive logging system, application monitoring, and error tracking integration. Configure alerts and establish observability practices.",
         priority |-> 2,
         estimatedHours |-> 8,
         labels |-> <<"devops", "monitoring">>]
      >>],
     [title |-> "Feature Implementation",
      description |-> "Build out all planned features according to specifications.",
      issues |-> <<
        [title |-> "Implement user management and profile features",
         description |-> "Build user registration, login, profile management, account settings, and related functionality. Include email verification, password reset, and profile customization features.",
         priority |-> 1,
         estimatedHours |-> 20,
         labels |-> <<"frontend", "backend", "feature">>],
        [title |-> "Implement user dashboard",
         description |-> "Create the main user dashboard showing key metrics, recent activity, and quick actions. Implement data visualization components, activity feeds, and personalization options.",
         priority |-> 2,
         estimatedHours |-> 18,
         labels |-> <<"frontend", "feature">>],
        [title |-> "Build search and filtering functionality",
         description |-> "Implement advanced search with filters, sorting options, and saved searches capability. Optimize for performance with proper indexing and caching strategies.",
         priority |-> 2,
         estimatedHours |-> 14,
         labels |-> <<"frontend", "backend", "feature">>],
        [title |-> "Create reporting module",
         description |-> "Develop customizable reports with data visualization, export options, and scheduling features. Implement data aggregation, filtering, and visualization components.",
         priority |-> 3,
         estimatedHours |-> 22,
         labels |-> <<"frontend", "data", "feature">>],
        [title |-> "Implement notification system",
         description |-> "Build a comprehensive notification system with in-app alerts, email notifications, and preference management. Include real-time updates and batch processing capabilities.",
         priority |-> 2,
         estimatedHours |-> 16,
         labels |-> <<"frontend", "backend", "feature">>],
        [title |-> "Develop administrative functions",
         description |-> "Create administrative interface for user management, system configuration, content moderation, and other administrative tasks. Implement proper access controls and audit logging.",
         priority |-> 2,
         estimatedHours |-> 24,
         labels |-> <<"frontend", "backend", "feature">>],
        [title |-> "Implement integration with third-party services",
         description |-> "Build integrations with required external services such as payment processors, email services, analytics platforms, and other third-party APIs. Ensure proper error handling and fallback mechanisms.",
         priority |-> 2,
         estimatedHours |-> 18,
         labels |-> <<"integration", "feature">>],
        [title |-> "Create mobile responsive adaptations",
         description |-> "Optimize application for mobile devices with responsive layouts, touch interactions, and mobile-specific features. Test across various device sizes and orientations.",
         priority |-> 2,
         estimatedHours |-> 14,
         labels |-> <<"frontend", "mobile", "feature">>]
      >>],
     [title |-> "Testing & Quality Assurance",
      description |-> "Ensure the application meets all requirements and functions correctly.",
      issues |-> <<
        [title |-> "Write unit tests for core functionality",
         description |-> "Create comprehensive test suite covering all critical paths and edge cases. Establish testing patterns and utilities to facilitate thorough testing.",
         priority |-> 1,
         estimatedHours |-> 20,
         labels |-> <<"testing", "quality">>],
        [title |-> "Perform integration testing",
         description |-> "Test interactions between different components and external services. Verify that all parts of the system work together correctly under various conditions.",
         priority |-> 2,
         estimatedHours |-> 16,
         labels |-> <<"testing", "quality">>],
        [title |-> "Conduct end-to-end testing",
         description |-> "Create automated end-to-end tests for critical user journeys. Verify complete workflows function correctly across all system components.",
         priority |-> 2,
         estimatedHours |-> 14,
         labels |-> <<"testing", "quality">>],
        [title |-> "Perform accessibility audit and remediation",
         description |-> "Audit application for accessibility compliance (WCAG 2.1 AA), identify issues, and implement necessary fixes. Include screen reader testing and keyboard navigation verification.",
         priority |-> 1,
         estimatedHours |-> 12,
         labels |-> <<"accessibility", "quality">>],
        [title |-> "Conduct security audit",
         description |-> "Perform thorough security assessment including penetration testing, vulnerability scanning, and code review for security issues. Address identified vulnerabilities.",
         priority |-> 1,
         estimatedHours |-> 16,
         labels |-> <<"security", "quality">>],
        [title |-> "Run performance testing and optimization",
         description |-> "Test application performance under various load conditions, identify bottlenecks, and implement optimizations. Measure and document performance metrics before and after improvements.",
         priority |-> 2,
         estimatedHours |-> 18,
         labels |-> <<"performance", "quality">>],
        [title |-> "Conduct user acceptance testing",
         description |-> "Facilitate testing sessions with stakeholders and end users to validate the solution meets requirements and expectations. Document feedback and required changes.",
         priority |-> 1,
         estimatedHours |-> 12,
         labels |-> <<"testing", "stakeholder">>],
        [title |-> "Create test documentation and reports",
         description |-> "Document test plans, test cases, testing coverage, and test results. Create comprehensive testing report for stakeholders and project documentation.",
         priority |-> 2,
         estimatedHours |-> 8,
         labels |-> <<"documentation", "quality">>]
      >>],
     [title |-> "Deployment & Launch",
      description |-> "Prepare for and execute the product launch.",
      issues |-> <<
        [title |-> "Create deployment documentation",
         description |-> "Document detailed deployment procedures, system requirements, configuration instructions, and maintenance processes. Include troubleshooting guides and rollback procedures.",
         priority |-> 1,
         estimatedHours |-> 8,
         labels |-> <<"documentation", "devops">>],
        [title |-> "Set up production environment",
         description |-> "Configure and secure production infrastructure, databases, storage, and networking. Implement monitoring, backup systems, and disaster recovery provisions.",
         priority |-> 1,
         estimatedHours |-> 12,
         labels |-> <<"infrastructure", "devops">>],
        [title |-> "Perform load testing",
         description |-> "Test system performance under expected and peak loads, identify bottlenecks, and implement necessary optimizations. Document capacity planning recommendations.",
         priority |-> 2,
         estimatedHours |-> 10,
         labels |-> <<"testing", "performance">>],
        [title |-> "Conduct pre-launch security review",
         description |-> "Perform final security assessment including configuration review, credential management audit, and infrastructure security verification.",
         priority |-> 1,
         estimatedHours |-> 6,
         labels |-> <<"security", "review">>],
        [title |-> "Create user documentation and help resources",
         description |-> "Develop comprehensive user guides, help documentation, FAQ, and tutorial content. Include screenshots, video demonstrations, and troubleshooting information.",
         priority |-> 2,
         estimatedHours |-> 14,
         labels |-> <<"documentation", "support">>],
        [title |-> "Prepare support and maintenance plan",
         description |-> "Establish support processes, escalation procedures, and maintenance schedule. Create incident response plan and communication templates.",
         priority |-> 2,
         estimatedHours |-> 6,
         labels |-> <<"planning", "support">>],
        [title |-> "Conduct staff training",
         description |-> "Train support staff, administrators, and other relevant team members on system operation, administration, and troubleshooting processes.",
         priority |-> 2,
         estimatedHours |-> 8,
         labels |-> <<"training", "support">>],
        [title |-> "Execute production deployment",
         description |-> "Deploy to production environment following established procedures with rollback strategy. Perform post-deployment verification and monitoring.",
         priority |-> 1,
         estimatedHours |-> 8,
         labels |-> <<"devops", "release">>],
        [title |-> "Post-launch monitoring and support",
         description |-> "Actively monitor system performance, error rates, and user activity during initial launch period. Address issues promptly and provide heightened support availability.",
         priority |-> 1,
         estimatedHours |-> 16,
         labels |-> <<"support", "monitoring">>]
      >>],
     [title |-> "Post-Launch Optimization",
      description |-> "Gather feedback, make improvements, and plan future development.",
      issues |-> <<
        [title |-> "Collect and analyze user feedback",
         description |-> "Gather user feedback through surveys, interviews, support requests, and analytics. Analyze patterns and prioritize improvement opportunities.",
         priority |-> 2,
         estimatedHours |-> 10,
         labels |-> <<"feedback", "analysis">>],
        [title |-> "Conduct post-launch retrospective",
         description |-> "Facilitate team retrospective to review project execution, identify lessons learned, and document recommendations for future projects.",
         priority |-> 2,
         estimatedHours |-> 4,
         labels |-> <<"process", "review">>],
        [title |-> "Implement critical fixes and improvements",
         description |-> "Address high-priority issues identified post-launch. Implement quick wins and critical improvements based on user feedback and performance data.",
         priority |-> 1,
         estimatedHours |-> 20,
         labels |-> <<"development", "optimization">>],
        [title |-> "Optimize performance and resource usage",
         description |-> "Analyze performance metrics, identify optimization opportunities, and implement improvements to enhance speed, reliability, and resource efficiency.",
         priority |-> 2,
         estimatedHours |-> 16,
         labels |-> <<"performance", "optimization">>],
        [title |-> "Create roadmap for future enhancements",
         description |-> "Develop prioritized roadmap for future development phases based on user feedback, business objectives, and technical considerations.",
         priority |-> 2,
         estimatedHours |-> 8,
         labels |-> <<"planning", "strategy">>],
        [title |-> "Document project completion and transfer ownership",
         description |-> "Create final project documentation, transfer knowledge to operational teams, and formally close the project phase.",
         priority |-> 1,
         estimatedHours |-> 6,
         labels |-> <<"documentation", "closure">>]
      >>]
   >>]

createSoftwareDevelopmentPlanBasic(params) ==
  [projectDescription |-> params.projectName \o ": A software development project focusing on " \o params.projectScope \o ". This project will implement a comprehensive solution that addresses key challenges in this domain while ensuring scalability, security, and excellent user experience.",
   milestones |-> <<
     [title |-> "Requirements & Planning",
      description |-> "Define detailed requirements, create technical specifications, and establish project timeline.",
      issues |-> <<
        [title |-> "Create detailed user stories",
         description |-> "Document comprehensive user stories with acceptance criteria for all main features.",
         priority |-> 2,
         labels |-> <<"documentation", "planning">>],
        [title |-> "Define technical architecture",
         description |-> "Design the system architecture considering " \o OrElse(join(technicalRequirements(params), ", "), "all technical requirements") \o ". Include diagrams, API specifications, and data models.",
         priority |-> 1,
         labels |-> <<"architecture", "planning">>],
        [title |-> "Set up development environment",
         description |-> "Configure development, staging, and production environments with CI/CD pipelines.",
         priority |-> 2,
         estimatedHours |-> 8,
         labels |-> <<"devops">>]
      >>],
     [title |-> "Design & Prototyping",
      description |-> "Create UI/UX designs and interactive prototypes for key user flows.",
      issues |-> <<
        [title |-> "Create wireframes for all main screens",
         description |-> "Design low-fidelity wireframes for all core user flows and get stakeholder approval.",
         priority |-> 2,
         estimatedHours |-> 12,
         labels |-> <<"design", "ux">>],
        [title |-> "Develop high-fidelity mockups",
         description |-> "Create detailed visual designs based on approved wireframes, including responsive variations.",
         priority |-> 2,
         estimatedHours |-> 16,
         labels |-> <<"design", "ui">>],
        [title |-> "Build interactive prototype",
         description |-> "Create clickable prototype demonstrating key user flows for testing and stakeholder review.",
         priority |-> 3,
         estimatedHours |-> 10,
         labels |-> <<"prototype", "ux">>]
      >>],
     [title |-> "Core Development",
      description |-> "Implement the fundamental features and establish the technical foundation.",
      issues |-> <<
        [title |-> "Set up database schema and migrations",
         description |-> "Design and implement database structure with proper indexing, relationships, and optimization.",
         priority |-> 1,
         estimatedHours |-> 8,
         labels |-> <<"backend", "database">>],
        [title |-> "Implement authentication system",
         description |-> "Create secure user authentication with role-based permissions, password policies, and account recovery.",
         priority |-> 1,
         estimatedHours |-> 12,
         labels |-> <<"security", "backend">>],
        [title |-> "Develop core API endpoints",
         description |-> "Implement RESTful or GraphQL API endpoints for core functionality with proper validation and error handling.",
         priority |-> 1,
         estimatedHours |-> 20,
         labels |-> <<"backend", "api">>]
      >>],
     [title |-> "Feature Implementation",
      description |-> "Build out all planned features according to specifications.",
      issues |-> <<
        [title |-> "Implement user dashboard",
         description |-> "Create the main user dashboard showing key metrics, recent activity, and quick actions.",
         priority |-> 2,
         estimatedHours |-> 14,
         labels |-> <<"frontend", "feature">>],
        [title |-> "Build search and filtering functionality",
         description |-> "Implement advanced search with filters, sorting options, and saved searches capability.",
         priority |-> 2,
         estimatedHours |-> 10,
         labels |-> <<"frontend", "feature">>],
        [title |-> "Create reporting module",
         description |-> "Develop customizable reports with data visualization, export options, and scheduling features.",
         priority |-> 3,
         estimatedHours |-> 18,
         labels |-> <<"frontend", "data", "feature">>]
      >>],
     [title |-> "Testing & Quality Assurance",
      description |-> "Ensure the application meets all requirements and functions correctly.",
      issues |-> <<
        [title |-> "Write unit tests for core functionality",
         description |-> "Create comprehensive test suite covering all critical paths and edge cases.",
         priority |-> 1,
         estimatedHours |-> 16,
         labels |-> <<"testing", "quality">>],
        [title |-> "Perform integration testing",
         description |-> "Test interactions between different components and external services.",
         priority |-> 2,
         estimatedHours |-> 12,
         labels |-> <<"testing", "quality">>],
        [title |-> "Conduct security audit",
         description |-> "Perform thorough security assessment including penetration testing and vulnerability scanning.",
         priority |-> 1,
         estimatedHours |-> 8,
         labels |-> <<"security", "quality">>]
      >>],
     [title |-> "Deployment & Launch",
      description |-> "Prepare for and execute the product launch.",
      issues |-> <<
        [title |-> "Create deployment documentation",
         description |-> "Document detailed deployment procedures, system requirements, and configuration instructions.",
         priority |-> 2,
         estimatedHours |-> 6,
         labels |-> <<"documentation", "devops">>],
        [title |-> "Perform load testing",
         description |-> "Test system performance under expected and peak loads, identify bottlenecks.",
         priority |-> 2,
         estimatedHours |-> 8,
         labels |-> <<"testing", "performance">>],
        [title |-> "Execute production deployment",
         description |-> "Deploy to production environment following established procedures with rollback strategy.",
         priority |-> 1,
         estimatedHours |-> 4,
         labels |-> <<"devops", "release">>]
      >>]
   >>]

createMarketingPlan(params) ==
  [projectDescription |-> params.projectName \o ": A comprehensive marketing initiative focused on " \o params.projectScope \o ". This campaign will increase brand awareness, engage " \o OrElseOpt(params.targetAudience, "target audiences") \o ", and drive measurable business outcomes.",
   milestones |-> <<
     [title |-> "Research & Strategy",
      description |-> "Analyze market trends, competitor activities, and audience preferences to form campaign strategy.",
      issues |-> <<
        [title |-> "Conduct market research",
         description |-> "Analyze current market trends, identify opportunities and threats, and compile findings report.",
         priority |-> 1,
         labels |-> <<"research", "strategy">>],
        [title |-> "Develop detailed audience personas",
         description |-> "Create comprehensive profiles of " \o OrElseOpt(params.targetAudience, "target audience segments") \o " including demographics, behaviors, needs, and pain points.",
         priority |-> 2,
         labels |-> <<"research", "audience">>],
        [title |-> "Formulate marketing strategy",
         description |-> "Develop overarching strategy including positioning, messaging, channels, and KPIs.",
         priority |-> 1,
         labels |-> <<"strategy">>]
      >>],
     [title |-> "Content Creation",
      description |-> "Produce all campaign content assets across required formats and channels.",
      issues |-> <<
        [title |-> "Create messaging guidelines",
         description |-> "Develop tone of voice, key messages, and communication framework for campaign consistency.",
         priority |-> 1,
         labels |-> <<"content", "branding">>],
        [title |-> "Produce visual content",
         description |-> "Design campaign visuals including graphics, photography, videos, and animations.",
         priority |-> 2,
         labels |-> <<"content", "design">>],
        [title |-> "Write copy for all channels",
         description |-> "Create compelling copy for website, social media, email, advertisements, and other touchpoints.",
         priority |-> 2,
         labels |-> <<"content", "copy">>]
      >>],
     [title |-> "Campaign Setup",
      description |-> "Configure digital platforms, establish tracking, and prepare for launch.",
      issues |-> <<
        [title |-> "Set up campaign tracking",
         description |-> "Implement analytics, attribution models, and reporting dashboards for performance monitoring.",
         priority |-> 1,
         labels |-> <<"analytics", "setup">>],
        [title |-> "Configure digital advertising",
         description |-> "Set up ad accounts, create audience segments, and prepare ad creatives across platforms.",
         priority |-> 2,
         labels |-> <<"advertising", "setup">>],
        [title |-> "Prepare email marketing sequence",
         description |-> "Build email templates, automation flows, and segmentation rules in email platform.",
         priority |-> 2,
         labels |-> <<"email", "setup">>]
      >>],
     [title |-> "Campaign Execution",
      description |-> "Launch and actively manage all campaign elements.",
      issues |-> <<
        [title |-> "Execute multichannel launch",
         description |-> "Coordinate simultaneous activation across all channels according to campaign timeline.",
         priority |-> 1,
         labels |-> <<"execution", "launch">>],
        [title |-> "Manage social media campaign",
         description |-> "Publish, monitor, and engage with content across social platforms throughout campaign duration.",
         priority |-> 2,
         labels |-> <<"social", "execution">>],
        [title |-> "Optimize advertising performance",
         description |-> "Monitor ad performance daily, adjust targeting, bidding, and creative elements for maximum ROI.",
         priority |-> 2,
         labels |-> <<"advertising", "optimization">>]
      >>],
     [title |-> "Analysis & Reporting",
      description |-> "Measure results, extract insights, and document campaign performance.",
      issues |-> <<
        [title |-> "Track KPI achievement",
         description |-> "Monitor performance against established KPIs, identify variances and success factors.",
         priority |-> 1,
         labels |-> <<"analytics", "reporting">>],
        [title |-> "Conduct A/B test analysis",
         description |-> "Analyze results of all campaign experiments, document learnings and recommendations.",
         priority |-> 3,
         labels |-> <<"testing", "analytics">>],
        [title |-> "Create comprehensive campaign report",
         description |-> "Compile detailed performance report with results, insights, and recommendations for future campaigns.",
         priority |-> 2,
         labels |-> <<"reporting", "documentation">>]
      >>]
   >>]

createDesignPlan(params) ==
  [projectDescription |-> params.projectName \o ": A design project focusing on " \o params.projectScope \o ". This project will deliver innovative, user-centered design solutions that balance aesthetic excellence with functional requirements.",
   milestones |-> <<
     [title |-> "Research & Discovery",
      description |-> "Gather insights, understand requirements, and define design objectives.",
      issues |-> <<
        [title |-> "Conduct stakeholder interviews",
         description |-> "Interview key stakeholders to understand business goals, constraints, and expectations.",
         priority |-> 1,
         labels |-> <<"research", "discovery">>],
        [title |-> "Perform competitive analysis",
         description |-> "Analyze competitor designs, identify trends, strengths, weaknesses, and opportunities.",
         priority |-> 2,
         labels |-> <<"research", "analysis">>],
        [title |-> "Create design brief",
         description |-> "Document project scope, objectives, target audience, design requirements, and constraints.",
         priority |-> 1,
         labels |-> <<"documentation", "planning">>]
      >>],
     [title |-> "Concept Development",
      description |-> "Generate and explore design concepts and directions.",
      issues |-> <<
        [title |-> "Develop mood boards",
         description |-> "Create visual collections representing potential design directions, styles, and aesthetics.",
         priority |-> 3,
         labels |-> <<"concept", "visual">>],
        [title |-> "Sketch initial concepts",
         description |-> "Produce range of rough conceptual sketches exploring different approaches and solutions.",
         priority |-> 1,
         labels |-> <<"concept", "ideation">>],
        [title |-> "Present concept directions",
         description |-> "Prepare and deliver presentation of design concepts for stakeholder feedback and direction selection.",
         priority |-> 2,
         labels |-> <<"presentation", "concept">>]
      >>],
     [title |-> "Design Development",
      description |-> "Refine selected concept into comprehensive design solution.",
      issues |-> <<
        [title |-> "Create detailed wireframes",
         description |-> "Develop structured layouts defining information hierarchy and content placement.",
         priority |-> 1,
         labels |-> <<"wireframe", "ux">>],
        [title |-> "Develop visual design system",
         description |-> "Create comprehensive design system including typography, color palette, UI components, and usage guidelines.",
         priority |-> 1,
         labels |-> <<"design system", "ui">>],
        [title |-> "Produce high-fidelity mockups",
         description |-> "Create detailed visual designs for all required screens, states, and variations.",
         priority |-> 2,
         labels |-> <<"mockup", "ui">>]
      >>],
     [title |-> "Prototyping & Testing",
      description |-> "Create interactive prototypes and validate designs through testing.",
      issues |-> <<
        [title |-> "Build interactive prototype",
         description |-> "Create clickable prototype demonstrating user flows, interactions, and animations.",
         priority |-> 2,
         labels |-> <<"prototype", "interaction">>],
        [title |-> "Conduct usability testing",
         description |-> "Test prototype with representative users, observe pain points, and gather feedback.",
         priority |-> 1,
         labels |-> <<"testing", "ux">>],
        [title |-> "Iterate based on findings",
         description |-> "Refine design based on testing insights, addressing usability issues and user feedback.",
         priority |-> 2,
         labels |-> <<"iteration", "refinement">>]
      >>],
     [title |-> "Design Delivery",
      description |-> "Prepare and deliver final design assets and documentation.",
      issues |-> <<
        [title |-> "Create design specifications",
         description |-> "Document detailed specifications including measurements, spacing, and styling information for implementation.",
         priority |-> 1,
         labels |-> <<"documentation", "specification">>],
        [title |-> "Prepare asset package",
         description |-> "Export and organize all design assets in appropriate formats for development team.",
         priority |-> 1,
         labels |-> <<"assets", "delivery">>],
        [title |-> "Create implementation guidelines",
         description |-> "Document guidance for developers on implementing animations, interactions, and responsive behaviors.",
         priority |-> 2,
         labels |-> <<"documentation", "implementation">>]
      >>]
   >>]

createGenericPlan(params) ==
  [projectDescription |-> params.projectName \o ": A comprehensive project focusing on " \o params.projectScope \o ". This initiative will systematically address key objectives while ensuring quality, timeliness, and stakeholder satisfaction.",
   milestones |-> <<
     [title |-> "Project Initiation",
      description |-> "Define project parameters, secure resources, and establish governance.",
      issues |-> <<
        [title |-> "Create project charter",
         description |-> "Document project purpose, objectives, scope, stakeholders, and success criteria.",
         priority |-> 1,
         labels |-> <<"documentation", "planning">>],
        [title |-> "Develop detailed project plan",
         description |-> "Create comprehensive plan including timeline, dependencies, resources, and budget.",
         priority |-> 1,
         labels |-> <<"planning">>],
        [title |-> "Establish project governance",
         description |-> "Define roles, responsibilities, communication protocols, and decision-making processes.",
         priority |-> 2,
         labels |-> <<"governance", "planning">>]
      >>],
     [title |-> "Requirements & Analysis",
      description |-> "Gather and analyze detailed requirements to inform project execution.",
      issues |-> <<
        [title |-> "Conduct stakeholder interviews",
         description |-> "Interview key stakeholders to gather requirements, expectations, and constraints.",
         priority |-> 1,
         labels |-> <<"requirements", "research">>],
        [title |-> "Document detailed requirements",
         description |-> "Create comprehensive requirements documentation with acceptance criteria.",
         priority |-> 1,
         labels |-> <<"requirements", "documentation">>],
        [title |-> "Perform feasibility analysis",
         description |-> "Assess technical, operational, and financial feasibility of requirements.",
         priority |-> 2,
         labels |-> <<"analysis">>]
      >>],
     [title |-> "Design & Planning",
      description |-> "Create detailed designs and implementation plans.",
      issues |-> <<
        [title |-> "Develop solution architecture",
         description |-> "Design high-level solution addressing all requirements and constraints.",
         priority |-> 1,
         labels |-> <<"design", "architecture">>],
        [title |-> "Create detailed work breakdown",
         description |-> "Break down work into manageable tasks with estimates and assignments.",
         priority |-> 1,
         labels |-> <<"planning">>],
        [title |-> "Establish quality assurance plan",
         description |-> "Define QA approach, testing methodologies, and acceptance criteria.",
         priority |-> 2,
         labels |-> <<"quality", "planning">>]
      >>],
     [title |-> "Implementation",
      description |-> "Execute project activities according to plan.",
      issues |-> <<
        [title |-> "Execute core deliverables",
         description |-> "Complete primary project deliverables according to requirements and specifications.",
         priority |-> 1,
         labels |-> <<"implementation", "core">>],
        [title |-> "Perform regular progress reviews",
         description |-> "Conduct scheduled reviews to assess progress, quality, and alignment with objectives.",
         priority |-> 2,
         labels |-> <<"monitoring", "review">>],
        [title |-> "Manage issues and risks",
         description |-> "Identify, document, and address emerging issues and risks throughout implementation.",
         priority |-> 1,
         labels |-> <<"risk", "management">>]
      >>],
     [title |-> "Testing & Validation",
      description |-> "Verify project deliverables meet requirements and quality standards.",
      issues |-> <<
        [title |-> "Conduct comprehensive testing",
         description |-> "Test all deliverables against requirements and quality standards.",
         priority |-> 1,
         labels |-> <<"testing", "quality">>],
        [title |-> "Facilitate stakeholder reviews",
         description |-> "Present deliverables to stakeholders for review and feedback.",
         priority |-> 2,
         labels |-> <<"review", "stakeholder">>],
        [title |-> "Document validation results",
         description |-> "Record testing outcomes, stakeholder feedback, and validation status.",
         priority |-> 2,
         labels |-> <<"documentation", "testing">>]
      >>],
     [title |-> "Deployment & Closure",
      description |-> "Deploy final deliverables and formally close the project.",
      issues |-> <<
        [title |-> "Execute deployment plan",
         description |-> "Implement deployment activities according to established plan.",
         priority |-> 1,
         labels |-> <<"deployment", "implementation">>],
        [title |-> "Transfer project documentation",
         description |-> "Hand over all relevant documentation to appropriate stakeholders.",
         priority |-> 2,
         labels |-> <<"documentation", "handover">>],
        [title |-> "Conduct project retrospective",
         description |-> "Facilitate session to review project success, challenges, and lessons learned.",
         priority |-> 2,
         labels |-> <<"closure", "retrospective">>]
      >>]
   >>]

\* ------------------------------------------------------------------------
\* Template selection
\* ------------------------------------------------------------------------

\* mutant: the software template cut short after its fourth milestone
softwarePlanTruncated(rev, params) ==
  LET full == IF rev = "full" THEN createSoftwareDevelopmentPlan(params)
              ELSE createSoftwareDevelopmentPlanBasic(params)
  IN  [full EXCEPT !.milestones = SubSeq(@, 1, 4)]

\* mutant: the software template starts at its second milestone
softwarePlanWithoutFirst(rev, params) ==
  LET full == IF rev = "full" THEN createSoftwareDevelopmentPlan(params)
              ELSE createSoftwareDevelopmentPlanBasic(params)
  IN  [full EXCEPT !.milestones = Tail(@)]

\* the software template of the revision in use
softwarePlan(rev, params) ==
  IF rev = "full" THEN createSoftwareDevelopmentPlan(params)
  ELSE createSoftwareDevelopmentPlanBasic(params)

\* mutant: the comparison without toLowerCase
industryIncludesCaseSensitive(industry, kw) ==
  industry # undefined /\ includes(industry[1], kw)

\* industry?.toLowerCase().includes(kw): undefined?.x is undefined, falsy
industryIncludes(industry, kw) ==
  industry # undefined /\ includes(toLowerCase(industry[1]), kw)

\* mutant: the design keyword is tested before the marketing keyword
createDetailedProjectPlanDesignFirst(rev, params) ==
  IF industryIncludes(params.industry, "software") \/ Falsy(params.industry)
    THEN softwarePlan(rev, params)
  ELSE IF industryIncludes(params.industry, "design")
    THEN createDesignPlan(params)
  ELSE IF industryIncludes(params.industry, "marketing")
    THEN createMarketingPlan(params)
  ELSE createGenericPlan(params)

\* mutant: no generic fallback, the initial plan literal (no milestones)
\* is returned when no keyword matches
createDetailedProjectPlanNoFallback(rev, params) ==
  IF industryIncludes(params.industry, "software") \/ Falsy(params.industry)
    THEN softwarePlan(rev, params)
  ELSE IF industryIncludes(params.industry, "marketing")
    THEN createMarketingPlan(params)
  ELSE IF industryIncludes(params.industry, "design")
    THEN createDesignPlan(params)
  ELSE [projectDescription |->
          "Comprehensive project plan for " \o params.projectName
          \o ". Scope includes " \o params.projectScope \o ".",
        milestones |-> <<>>]

\* mutant: the generic plan keeps the heading of the initial plan literal,
\* written without the scope
createDetailedProjectPlanKeepsHeading(rev, params) ==
  IF industryIncludes(params.industry, "software") \/ Falsy(params.industry)
    THEN softwarePlan(rev, params)
  ELSE IF industryIncludes(params.industry, "marketing")
    THEN createMarketingPlan(params)
  ELSE IF industryIncludes(params.industry, "design")
    THEN createDesignPlan(params)
  ELSE [createGenericPlan(params) EXCEPT
          !.projectDescription =
             "Comprehensive project plan for " \o params.projectName \o "."]

\* the initial plan literal of the source is overwritten on every branch
createDetailedProjectPlan(rev, params) ==
  IF industryIncludes(params.industry, "software") \/ Falsy(params.industry)
    THEN softwarePlan(rev, params)
  ELSE IF industryIncludes(params.industry, "marketing")
    THEN createMarketingPlan(params)
  ELSE IF industryIncludes(params.industry, "design")
    THEN createDesignPlan(params)
  ELSE createGenericPlan(params)

\* ------------------------------------------------------------------------
\* Detail Expander (generateDetailedIssueDescription)
\* ------------------------------------------------------------------------

ImplementationInstructions ==
  "## Implementation Instructions\n"
  \o "1. Begin by analyzing the current state and requirements thoroughly\n"
  \o "2. Create a detailed implementation plan before writing any code\n"
  \o "3. Follow established project patterns and coding standards\n"
  \o "4. Document your approach and any important decisions\n"
  \o "5. Write tests to verify your implementation meets requirements\n"
  \o "6. Request feedback early to avoid late-stage revisions\n"
  \o "\n"

DatabaseWork ==
  "### Database Work\n"
  \o "- Ensure proper indexing for optimal query performance\n"
  \o "- Consider data validation and constraints\n"
  \o "- Document schema changes and migration steps\n"
  \o "- Plan for backward compatibility if needed\n"
  \o "\n"

APIDevelopment ==
  "### API Development\n"
  \o "- Follow RESTful principles or GraphQL best practices\n"
  \o "- Implement proper error handling and status codes\n"
  \o "- Document the API with examples\n"
  \o "- Consider rate limiting and security aspects\n"
  \o "\n"

UIImplementation ==
  "### UI Implementation\n"
  \o "- Ensure responsive design works on all target devices\n"
  \o "- Implement proper loading states and error handling\n"
  \o "- Follow accessibility guidelines (WCAG 2.1)\n"
  \o "- Test across different browsers\n"
  \o "\n"

TestingWork ==
  "### Testing Work\n"
  \o "- Create comprehensive test cases covering edge cases\n"
  \o "- Document test procedures for manual testing\n"
  \o "- Consider performance and load testing aspects\n"
  \o "- Verify compatibility with target environments\n"
  \o "\n"

SecurityConsiderations ==
  "### Security Considerations\n"
  \o "- Follow OWASP security best practices\n"
  \o "- Implement proper authentication and authorization\n"
  \o "- Consider input validation and data sanitization\n"
  \o "- Document security measures implemented\n"
  \o "\n"

AcceptanceCriteria ==
  "## Acceptance Criteria\n"
  \o "### Functional Requirements\n"
  \o "- Functionality works as described in the overview\n"
  \o "- All edge cases are handled gracefully\n"
  \o "- Performance meets established benchmarks\n"
  \o "\n"
  \o "### Quality Requirements\n"
  \o "- Code follows project coding standards and patterns\n"
  \o "- Comprehensive test coverage is provided\n"
  \o "- Documentation is complete and up-to-date\n"
  \o "- No new linting errors or warnings are introduced\n"
  \o "\n"
  \o "### Delivery Requirements\n"
  \o "- Pull request includes detailed description of changes\n"
  \o "- CI/CD pipeline passes all checks\n"
  \o "- Code has been peer-reviewed before merging\n"
  \o "- Changes have been demonstrated to stakeholders if applicable\n"
  \o "\n"

Dependencies ==
  "## Dependencies\n"
  \o "- Note any dependencies on other tasks or team members here\n"
  \o "- Update this section as dependencies are identified or resolved\n"
  \o "\n"

TimeTracking ==
  "## Time Tracking\n"
  \o "- Initial estimate: [TBD] hours\n"
  \o "- Track time spent on research, implementation, testing, and review\n"
  \o "- Document any significant deviations from estimates\n"
  \o "\n"

AdditionalResources ==
  "## Additional Resources\n"
  \o "- Refer to project documentation for established patterns\n"
  \o "- Consult with team members who have domain expertise\n"
  \o "- Update this section with links to relevant resources\n"

AcceptanceCriteriaBasic ==
  "## Acceptance Criteria\n"
  \o "- Functionality works as described\n"
  \o "- Code follows project standards\n"
  \o "- Documentation is updated\n"
  \o "- Tests are written and passing\n"
  \o "\n"

AdditionalResourcesBasic ==
  "## Additional Resources\n"
  \o "- Refer to project documentation for more details\n"
  \o "- Consult with team members if clarification is needed\n"

\* planParams.technicalRequirements.forEach(req => ...)
RECURSIVE technicalBullets(_)
technicalBullets(reqs) ==
  IF Len(reqs) = 0 THEN ""
  ELSE "- Consider " \o reqs[1] \o " when implementing this task\n"
       \o technicalBullets(Tail(reqs))

\* mutant: the length test is missing, so an empty list (truthy in
\* JavaScript) still gets the header
technicalConsiderationsAlways(planParams) ==
  IF planParams.technicalRequirements # undefined
  THEN "## Technical Considerations\n"
       \o technicalBullets(planParams.technicalRequirements[1])
       \o "\n"
  ELSE ""

\* the section is added when technicalRequirements is present and non-empty
technicalConsiderations(planParams) ==
  IF planParams.technicalRequirements # undefined
     /\ Len(planParams.technicalRequirements[1]) > 0
  THEN "## Technical Considerations\n"
       \o technicalBullets(planParams.technicalRequirements[1])
       \o "\n"
  ELSE ""

\* mutant: the Context section is written before the Overview
overviewAndContextSwapped(baseDescription, planParams) ==
  "## Context\nThis task is part of the " \o planParams.projectName
  \o " project, focusing on " \o planParams.projectScope \o ".\n\n"
  \o "## Overview\n" \o baseDescription \o "\n\n"

\* the Overview and Context sections, common to both revisions
overviewAndContext(baseDescription, planParams) ==
  "## Overview\n" \o baseDescription \o "\n\n"
  \o "## Context\nThis task is part of the " \o planParams.projectName
  \o " project, focusing on " \o planParams.projectScope \o ".\n\n"

\* mutant: the keywords are looked for in the description as written,
\* without toLowerCase
specificConsiderationsCaseSensitive(baseDescription) ==
  LET has(kw) == includes(baseDescription, kw)
  IN  "## Specific Considerations\n"
      \o (IF has("database") \/ has("schema") THEN DatabaseWork ELSE "")
      \o (IF has("api") \/ has("endpoint") THEN APIDevelopment ELSE "")
      \o (IF has("ui") \/ has("interface") \/ has("design") \/ has("frontend")
          THEN UIImplementation ELSE "")
      \o (IF has("test") \/ has("qa") THEN TestingWork ELSE "")
      \o (IF has("security") \/ has("auth") THEN SecurityConsiderations ELSE "")

\* the keyword blocks of the full revision (the source lower-cases the
\* description anew for every keyword; the value is the same)
specificConsiderations(baseDescription) ==
  LET lower == toLowerCase(baseDescription)
      has(kw) == includes(lower, kw)
  IN  "## Specific Considerations\n"
      \o (IF has("database") \/ has("schema") THEN DatabaseWork ELSE "")
      \o (IF has("api") \/ has("endpoint") THEN APIDevelopment ELSE "")
      \o (IF has("ui") \/ has("interface") \/ has("design") \/ has("frontend")
          THEN UIImplementation ELSE "")
      \o (IF has("test") \/ has("qa") THEN TestingWork ELSE "")
      \o (IF has("security") \/ has("auth") THEN SecurityConsiderations ELSE "")

generateDetailedIssueDescription(baseDescription, planParams) ==
  overviewAndContext(baseDescription, planParams)
  \o technicalConsiderations(planParams)
  \o ImplementationInstructions
  \o specificConsiderations(baseDescription)
  \o AcceptanceCriteria
  \o Dependencies
  \o TimeTracking
  \o AdditionalResources

generateDetailedIssueDescriptionBasic(baseDescription, planParams) ==
  overviewAndContext(baseDescription, planParams)
  \o technicalConsiderations(planParams)
  \o AcceptanceCriteriaBasic
  \o AdditionalResourcesBasic

\* the expander of the revision in use
expandDescription(rev, baseDescription, planParams) ==
  IF rev = "full" THEN generateDetailedIssueDescription(baseDescription, planParams)
  ELSE generateDetailedIssueDescriptionBasic(baseDescription, planParams)

\* ------------------------------------------------------------------------
\* Bounds and inputs
\* ------------------------------------------------------------------------

\* top-level calls the caller makes on one instance
MaxCalls == 1

\* words concatenated into an industry string
MaxWords == 3

\* Object values crossing the gateway: t is the typeof class, id the id
\* property (absent, or present with a string value)
jsObject(idOpt) == [t |-> "object", id |-> idOpt]
jsNull == [t |-> "null", id |-> undefined]
jsString == [t |-> "string", id |-> undefined]
jsUndefined == [t |-> "undefined", id |-> undefined]
jsTrue == [t |-> "boolean", id |-> undefined, value |-> TRUE]

\* the id the external system gives its n-th entity
entityId(n) == "id-" \o ToString(n)

\* errors the external client raises
ClientErrors == {"NetworkError", "AuthenticationError"}

\* new Error('Failed to get project ID from creation response')
ProjectIdError == "Failed to get project ID from creation response"

Revisions == {"full", "basic"}

TeamIds == {"team-1"}

IndustryWords == {"Software", "MARKETING", "design", "Health", " & "}

\* all concatenations of at most n industry words
RECURSIVE WordStrings(_)
WordStrings(n) ==
  IF n = 0 THEN {""}
  ELSE LET shorter == WordStrings(n - 1)
       IN  shorter \cup {s \o w : s \in shorter, w \in IndustryWords}

NamedIndustries ==
  {"Software Engineering", "SOFTWARE", "software", "Digital Marketing",
   "Graphic Design", "Healthcare"}

Industries ==
  {undefined} \cup {Some(s) : s \in WordStrings(MaxWords) \cup NamedIndustries}

planParams(name, scope, industry, reqs, audience) ==
  [technicalRequirements |-> reqs, projectName |-> name,
   projectScope |-> scope, targetAudience |-> audience,
   industry |-> industry, timeline |-> undefined]

\* inputs of the plan generator
PlanInputs ==
  {planParams("Acme Portal", "internal tooling", ind, reqs, aud) :
     ind \in Industries,
     reqs \in {undefined, Some(<<>>), Some(<<"React", "PostgreSQL">>)},
     aud \in {undefined, Some("developers")}}
  \cup
  {planParams(name, scope, ind, undefined, undefined) :
     name \in {"Acme Portal", "Launch 2.0"},
     scope \in {"internal tooling", "brand refresh"},
     ind \in {undefined} \cup {Some(s) : s \in NamedIndustries}}

\* inputs of the orchestration: every template, with and without
\* technical requirements
OrchestrationInputs ==
  {planParams("Acme Portal", "internal tooling", undefined, undefined, undefined),
   planParams("Acme Portal", "internal tooling", Some("software"),
              Some(<<"React", "PostgreSQL">>), undefined),
   planParams("Acme Portal", "internal tooling", Some("Digital Marketing"),
              undefined, Some("developers")),
   planParams("Acme Portal", "internal tooling", Some("Graphic Design"),
              Some(<<"React", "PostgreSQL">>), undefined),
   planParams("Acme Portal", "internal tooling", Some("Healthcare"),
              undefined, undefined)}

\* ------------------------------------------------------------------------
\* State
\* ------------------------------------------------------------------------

VARIABLES
  revision,   \* the revision of the class in use
  pc,         \* "idle", "done", or the await the call in flight is suspended at
  call,       \* the top-level call in flight or last completed: [op, args]
  pending,    \* the request awaiting the external client's response, or <<>>
  locals,     \* local variables of the call in flight
  result,     \* how the call completed: [kind, value]
  history,    \* the requests the call has sent to the client, with outcomes
  ext,        \* entities living in the external system
  nextId,     \* number of entities the external system has created
  ncalls,     \* top-level calls made so far
  input,      \* the PlanParams the caller of the plan generator holds
  budget,     \* top-level calls the caller makes in all
  other,      \* the other call on the same instance, suspended at its await
  switches    \* times the event loop went from one call to the other

vars == <<revision, pc, call, pending, locals, result, history, ext, nextId, ncalls, input, budget,
          other, switches>>

\* the external system outlives the process: it may already hold entities
InitialExt ==
  {[issues |-> {}, teams |-> {}, projects |-> {}],
   [issues |-> {"issue-1"}, teams |-> {"team-1"}, projects |-> {}]}

NoCall == [op |-> "none", args |-> <<>>]

NoResult == [value |-> jsUndefined, kind |-> "none"]

NoLocals ==
  [i |-> 0, projectResponse |-> jsUndefined, projectId |-> undefined, m |-> 0,
   milestoneIssue |-> jsUndefined, createdIssues |-> <<>>,
   createdMilestones |-> <<>>, fetched |-> jsUndefined]

\* the state of an invocation: JavaScript keeps an async method's position
\* and local variables per invocation
IdleContext ==
  [pc |-> "idle", call |-> NoCall, pending |-> undefined, locals |-> NoLocals,
   result |-> NoResult, history |-> <<>>]

Init ==
  /\ revision \in Revisions
  /\ pc = "idle"
  /\ call = NoCall
  /\ pending = <<>>
  /\ locals = NoLocals
  /\ result = NoResult
  /\ history = <<>>
  /\ ext \in InitialExt
  /\ nextId = 0
  /\ ncalls = 0
  /\ input = undefined
  /\ budget = MaxCalls
  /\ other = IdleContext
  /\ switches = 0

\* the start of a caller that holds one PlanParams value for the generator
InitPlan ==
  /\ revision \in Revisions
  /\ pc = "idle"
  /\ call = NoCall
  /\ pending = <<>>
  /\ locals = NoLocals
  /\ result = NoResult
  /\ history = <<>>
  /\ ext \in InitialExt
  /\ nextId = 0
  /\ ncalls = 0
  /\ input \in {Some(p) : p \in PlanInputs}
  /\ budget = MaxCalls
  /\ other = IdleContext
  /\ switches = 0

\* ------------------------------------------------------------------------
\* The external client (LinearClient): what a request may be answered with
\* ------------------------------------------------------------------------

Ok(v) == [value |-> v, ok |-> TRUE, error |-> ""]
Fail(e) == [value |-> jsUndefined, ok |-> FALSE, error |-> e]

\* answers to an entity lookup by id: found only when the entity exists
lookupResponses(known, id) ==
  {Fail(e) : e \in ClientErrors}
  \cup (IF id \in known THEN {Ok(jsObject(Some(id)))} ELSE {Fail("NotFound")})

\* the possible answers to request req in the current external state
clientResponses(req) ==
  {Fail(e) : e \in ClientErrors}
  \cup
  CASE req.api = "createProject" ->
         {Ok(jsObject(Some(entityId(nextId + 1)))), Ok(jsObject(Some(""))),
          Ok(jsObject(undefined)), Ok(jsNull), Ok(jsString)}
    [] req.api \in {"createTeam", "createIssue"} ->
         {Ok(jsObject(Some(entityId(nextId + 1))))}
    [] req.api = "team" -> lookupResponses(ext.teams, req.id)
    [] req.api = "issue" -> lookupResponses(ext.issues, req.id)
    [] OTHER -> {Ok(jsObject(undefined))}

\* the external state after req was answered with resp
extAfter(req, resp) ==
  IF ~resp.ok THEN ext
  ELSE CASE req.api = "createTeam" -> [ext EXCEPT !.teams = @ \cup {entityId(nextId + 1)}]
         [] req.api = "createProject" -> [ext EXCEPT !.projects = @ \cup {entityId(nextId + 1)}]
         [] req.api = "createIssue" -> [ext EXCEPT !.issues = @ \cup {entityId(nextId + 1)}]
         [] req.api = "issue.delete" -> [ext EXCEPT !.issues = @ \ {req.id}]
         [] OTHER -> ext

nextIdAfter(req, resp) ==
  IF resp.ok /\ req.api \in {"createTeam", "createProject", "createIssue"}
  THEN nextId + 1 ELSE nextId

\* ------------------------------------------------------------------------
\* Call bookkeeping
\* ------------------------------------------------------------------------

request(api, id, arg) == [id |-> id, api |-> api, arg |-> arg]

\* the title or name a creation request carries
subjectOf(req) ==
  IF req.api = "createIssue" THEN req.arg.title
  ELSE IF req.api \in {"createProject", "createTeam"} THEN req.arg.name
  ELSE ""

\* a history entry: the call sent req in the role kind (for milestone m,
\* issue i); outcome is "pending", "ok" or the error the client raised,
\* created the id of the entity the client answered with
entry(req, kind, m, i) ==
  [i |-> i, kind |-> kind, m |-> m, api |-> req.api, subject |-> subjectOf(req),
   outcome |-> "pending", created |-> undefined]

\* the history once its last request has been answered with resp
answered(h, resp) ==
  [h EXCEPT ![Len(h)].outcome = IF resp.ok THEN "ok" ELSE resp.error,
            ![Len(h)].created = resp.value.id]

\* mutant: the catch block throws a new error that wraps the caught one
rethrowWrapped(error) == "Error: " \o error

\* catch (error) { console.error(...); throw error; }
rethrow(error) == error

Returned(v) == [value |-> v, kind |-> "return", error |-> ""]
Thrown(e) == [value |-> jsUndefined, kind |-> "throw", error |-> e]

\* the caller starts the call op(args), which sends req before its first await
Begin(op, args, req, kind, at) ==
  /\ pc \in {"idle", "done"}
  /\ ncalls < budget
  /\ ncalls' = ncalls + 1
  /\ call' = [op |-> op, args |-> args]
  /\ pending' = Some(req)
  /\ history' = <<entry(req, kind, 0, 0)>>
  /\ locals' = NoLocals
  /\ result' = NoResult
  /\ pc' = at
  /\ UNCHANGED <<revision, ext, nextId, input, budget, other, switches>>

\* the call in flight completes with res once resp has arrived
Complete(resp, res) ==
  /\ pc' = "done"
  /\ pending' = undefined
  /\ history' = answered(history, resp)
  /\ result' = res
  /\ ext' = extAfter(pending[1], resp)
  /\ nextId' = nextIdAfter(pending[1], resp)
  /\ UNCHANGED <<revision, call, ncalls, input, budget, other, switches>>

\* the call in flight takes resp, updates its locals and sends req
Continue(resp, loc, req, kind, m, i, at) ==
  /\ pc' = at
  /\ pending' = Some(req)
  /\ history' = Append(answered(history, resp), entry(req, kind, m, i))
  /\ locals' = loc
  /\ ext' = extAfter(pending[1], resp)
  /\ nextId' = nextIdAfter(pending[1], resp)
  /\ UNCHANGED <<revision, call, result, ncalls, input, budget, other, switches>>

\* a body of the form: x = await client.api(...); return x  (catch: rethrow)
ReturnResponse(at) ==
  /\ pc = at
  /\ \E resp \in clientResponses(pending[1]) :
       /\ Complete(resp, IF resp.ok THEN Returned(resp.value)
                         ELSE Thrown(rethrow(resp.error)))
       /\ UNCHANGED locals

\* ------------------------------------------------------------------------
\* Entity Gateway
\* ------------------------------------------------------------------------

CreateTeamInputs == {[name |-> "Development Team", key |-> "DEV"]}

CreateProjectInputs ==
  {[description |-> d, name |-> "Website Redesign", teamId |-> t,
    icon |-> undefined, color |-> undefined] :
     t \in TeamIds, d \in {undefined, Some("Complete overhaul")}}
  \cup
  {[description |-> Some("Complete overhaul"), name |-> "Website Redesign",
    teamId |-> "team-9", icon |-> Some("rocket"), color |-> Some("#ff0000")]}

CreateIssueInputs ==
  {[title |-> "Implement homepage design", description |-> undefined,
    priority |-> Some(1), labels |-> undefined,
    projectId |-> undefined, teamId |-> t] : t \in TeamIds}

IssueIds == {"issue-1", "issue-9"}

LookupTeamIds == {"team-1", "team-9"}

ProjectIdInputs == {undefined, Some(""), Some("project-1")}

UpdateInputs == {[title |-> "Updated title"]}

\* this.client.createTeam(params)
createTeam(params) ==
  Begin("createTeam", <<params>>, request("createTeam", "", params), "", "createTeam")

createTeamDone == ReturnResponse("createTeam")

\* mutant: the params are handed to the client as they are
createProjectRequestPassThrough(params) ==
  request("createProject", "", params)

\* the body the gateway sends for createProject: teamId becomes teamIds
createProjectRequest(params) ==
  request("createProject", "",
          [description |-> params.description, name |-> params.name,
           icon |-> params.icon, color |-> params.color,
           teamIds |-> <<params.teamId>>])

createProject(params) ==
  Begin("createProject", <<params>>, createProjectRequest(params), "", "createProject")

createProjectDone == ReturnResponse("createProject")

\* this.client.createIssue(params)
createIssueRequest(params) == request("createIssue", "", params)

createIssue(params) ==
  Begin("createIssue", <<params>>, createIssueRequest(params), "", "createIssue")

createIssueDone == ReturnResponse("createIssue")

getTeams ==
  Begin("getTeams", <<>>, request("teams", "", <<>>), "", "getTeams")

getTeamsDone == ReturnResponse("getTeams")

\* mutant: the projects are queried in one request filtered by the team id,
\* without resolving the team
getProjectsFiltered(teamId) ==
  Begin("getProjects", <<teamId>>, request("team.projects", teamId, <<>>),
        "", "getProjects.projects")

\* first await: this.client.team(teamId)
getProjects(teamId) ==
  Begin("getProjects", <<teamId>>, request("team", teamId, <<>>), "", "getProjects.team")

\* second await: team.projects()
getProjectsTeam ==
  /\ pc = "getProjects.team"
  /\ \E resp \in clientResponses(pending[1]) :
       IF resp.ok
       THEN Continue(resp, [locals EXCEPT !.fetched = resp.value],
                     request("team.projects", resp.value.id[1], <<>>),
                     "", 0, 0, "getProjects.projects")
       ELSE Complete(resp, Thrown(rethrow(resp.error))) /\ UNCHANGED locals

getProjectsDone == ReturnResponse("getProjects.projects")

\* mutant: the project clause replaces the filter instead of extending it
issueFilterProjectOnly(teamId, projectId) ==
  IF Falsy(projectId)
  THEN [team |-> [id |-> [eq |-> teamId]]]
  ELSE [project |-> [id |-> [eq |-> projectId[1]]]]

\* const filter = { team: { id: { eq: teamId } } }; if (projectId) filter.project = ...
issueFilter(teamId, projectId) ==
  IF ~Falsy(projectId)
  THEN [team |-> [id |-> [eq |-> teamId]], project |-> [id |-> [eq |-> projectId[1]]]]
  ELSE [team |-> [id |-> [eq |-> teamId]]]

getIssues(teamId, projectId) ==
  Begin("getIssues", <<teamId, projectId>>,
        request("issues", "", [filter |-> issueFilter(teamId, projectId)]),
        "", "getIssues")

getIssuesDone == ReturnResponse("getIssues")

\* mutant: the update is sent by id, without fetching the issue first
updateIssueDirect(issueId, updates) ==
  Begin("updateIssue", <<issueId, updates>>,
        request("issue.update", issueId, updates), "", "updateIssue.update")

\* first await: this.client.issue(issueId)
updateIssue(issueId, updates) ==
  Begin("updateIssue", <<issueId, updates>>, request("issue", issueId, <<>>),
        "", "updateIssue.issue")

\* second await: issue.update(updates)
updateIssueFetched ==
  /\ pc = "updateIssue.issue"
  /\ \E resp \in clientResponses(pending[1]) :
       IF resp.ok
       THEN Continue(resp, [locals EXCEPT !.fetched = resp.value],
                     request("issue.update", resp.value.id[1], call.args[2]),
                     "", 0, 0, "updateIssue.update")
       ELSE Complete(resp, Thrown(rethrow(resp.error))) /\ UNCHANGED locals

updateIssueDone == ReturnResponse("updateIssue.update")

deleteIssue(issueId) ==
  Begin("deleteIssue", <<issueId>>, request("issue", issueId, <<>>),
        "", "deleteIssue.issue")

\* mutant: an issue that is already gone counts as deleted
deleteIssueFetchedIdempotent ==
  /\ pc = "deleteIssue.issue"
  /\ \E resp \in clientResponses(pending[1]) :
       IF resp.ok
       THEN Continue(resp, [locals EXCEPT !.fetched = resp.value],
                     request("issue.delete", resp.value.id[1], <<>>),
                     "", 0, 0, "deleteIssue.delete")
       ELSE IF resp.error = "NotFound"
       THEN Complete(resp, Returned(jsTrue)) /\ UNCHANGED locals
       ELSE Complete(resp, Thrown(rethrow(resp.error))) /\ UNCHANGED locals

\* second await: issue.delete()
deleteIssueFetched ==
  /\ pc = "deleteIssue.issue"
  /\ \E resp \in clientResponses(pending[1]) :
       IF resp.ok
       THEN Continue(resp, [locals EXCEPT !.fetched = resp.value],
                     request("issue.delete", resp.value.id[1], <<>>),
                     "", 0, 0, "deleteIssue.delete")
       ELSE Complete(resp, Thrown(rethrow(resp.error))) /\ UNCHANGED locals

\* mutant: a failed delete is reported as the success flag false
deleteIssueDoneSwallowing ==
  /\ pc = "deleteIssue.delete"
  /\ \E resp \in clientResponses(pending[1]) :
       /\ Complete(resp, IF resp.ok THEN Returned(jsTrue)
                         ELSE Returned([t |-> "boolean", id |-> undefined,
                                        value |-> FALSE]))
       /\ UNCHANGED locals

\* await issue.delete(); return true
deleteIssueDone ==
  /\ pc = "deleteIssue.delete"
  /\ \E resp \in clientResponses(pending[1]) :
       /\ Complete(resp, IF resp.ok THEN Returned(jsTrue)
                         ELSE Thrown(rethrow(resp.error)))
       /\ UNCHANGED locals

\* ------------------------------------------------------------------------
\* Plan Templater
\* ------------------------------------------------------------------------

\* mutant: the plan is obtained from a service behind the client, as the
\* comment in the body envisages
generateProjectPlanFetching(params) ==
  /\ pc \in {"idle", "done"}
  /\ ncalls < budget
  /\ ncalls' = ncalls + 1
  /\ call' = [op |-> "generateProjectPlan", args |-> <<params>>]
  /\ result' = Returned(createDetailedProjectPlan(revision, params))
  /\ pc' = "done"
  /\ pending' = undefined
  /\ history' = answered(<<entry(request("teams", "", <<>>), "", 0, 0)>>,
                         Ok(jsObject(undefined)))
  /\ locals' = NoLocals
  /\ UNCHANGED <<revision, ext, nextId, input, budget, other, switches>>

\* generateProjectPlan has no await on the client: it completes in one step
generateProjectPlan(params) ==
  /\ pc \in {"idle", "done"}
  /\ ncalls < budget
  /\ ncalls' = ncalls + 1
  /\ call' = [op |-> "generateProjectPlan", args |-> <<params>>]
  /\ result' = Returned(createDetailedProjectPlan(revision, params))
  /\ pc' = "done"
  /\ pending' = undefined
  /\ history' = <<>>
  /\ locals' = NoLocals
  /\ UNCHANGED <<revision, ext, nextId, input, budget, other, switches>>

\* the sequence s in reverse order
reversed(s) == [k \in 1..Len(s) |-> s[Len(s) + 1 - k]]

\* mutant: the milestones are walked from the last to the first
planReversed ==
  [createDetailedProjectPlan(revision, call.args[2]) EXCEPT
     !.milestones = reversed(@)]

\* the plan of the createProjectWithPlan call in flight (const plan)
plan == createDetailedProjectPlan(revision, call.args[2])

\* mutant: the marker's description goes through the Detail Expander, as
\* the descriptions of the child issues do
markerRequestExpanded(teamId, projectId, milestone) ==
  createIssueRequest(
    [title |-> "Milestone: " \o milestone.title,
     description |-> Some(expandDescription(revision, milestone.description,
                                            call.args[2])),
     priority |-> Some(1), labels |-> Some(<<"milestone">>),
     projectId |-> Some(projectId), teamId |-> teamId])

\* the parent issue created for milestone number m
markerRequest(teamId, projectId, milestone) ==
  createIssueRequest(
    [title |-> "Milestone: " \o milestone.title,
     description |-> Some(milestone.description),
     priority |-> Some(1), labels |-> Some(<<"milestone">>),
     projectId |-> Some(projectId), teamId |-> teamId])

\* labels: issue.labels (undefined when the template has none)
labelsOf(issue) ==
  IF "labels" \in DOMAIN issue THEN Some(issue.labels) ELSE undefined

\* mutant: the template's description is passed on as it is
childRequestRaw(rev, teamId, projectId, issue, params) ==
  createIssueRequest(
    [title |-> issue.title,
     description |-> Some(issue.description),
     priority |-> Some(issue.priority), labels |-> labelsOf(issue),
     projectId |-> Some(projectId), teamId |-> teamId])

\* mutant: the issue of a template is created without its project
childRequestNoProject(rev, teamId, projectId, issue, params) ==
  createIssueRequest(
    [title |-> issue.title,
     description |-> Some(expandDescription(rev, issue.description, params)),
     priority |-> Some(issue.priority), labels |-> labelsOf(issue),
     projectId |-> undefined, teamId |-> teamId])

\* the issue created for one issue template
childRequest(rev, teamId, projectId, issue, params) ==
  createIssueRequest(
    [title |-> issue.title,
     description |-> Some(expandDescription(rev, issue.description, params)),
     priority |-> Some(issue.priority), labels |-> labelsOf(issue),
     projectId |-> Some(projectId), teamId |-> teamId])

\* mutant: the id is read without the 'id' in projectResponse test and
\* turned into a string
projectIdOfStringified(projectResponse) ==
  IF projectResponse.t = "object"
  THEN IF projectResponse.id # undefined THEN projectResponse.id
       ELSE Some("undefined")
  ELSE undefined

\* let projectId; if (projectResponse && typeof projectResponse === 'object'
\*                    && 'id' in projectResponse) projectId = projectResponse.id
projectIdOf(projectResponse) ==
  IF projectResponse.t = "object" /\ projectResponse.id # undefined
  THEN projectResponse.id
  ELSE undefined

\* const plan = await this.generateProjectPlan(planParams);
\* const projectResponse = await this.createProject({...})
createProjectWithPlan(teamId, params) ==
  Begin("createProjectWithPlan", <<teamId, params>>,
        createProjectRequest(
          [description |-> Some(createDetailedProjectPlan(revision, params).projectDescription),
           name |-> params.projectName, teamId |-> teamId,
           icon |-> undefined, color |-> undefined]),
        "project", "createProjectWithPlan.project")

\* mutant: the return statement stands inside the milestone loop
finishMilestoneEarlyReturn(resp, loc, m) ==
  LET done == [loc EXCEPT
                 !.createdMilestones =
                   Append(@, [issues |-> loc.createdIssues,
                              milestone |-> loc.milestoneIssue])]
  IN  /\ Complete(resp, Returned([milestones |-> done.createdMilestones,
                                  project |-> loc.projectResponse]))
      /\ locals' = done

\* the loop position reached once milestone m is complete: the next
\* milestone's marker is sent, or the call returns
finishMilestone(resp, loc, m) ==
  LET done == [loc EXCEPT
                 !.createdMilestones =
                   Append(@, [issues |-> loc.createdIssues,
                              milestone |-> loc.milestoneIssue])]
  IN  IF m < Len(plan.milestones)
      THEN Continue(resp, [done EXCEPT !.m = m + 1, !.i = 0],
                    markerRequest(call.args[1], loc.projectId[1], plan.milestones[m + 1]),
                    "marker", m + 1, 0, "createProjectWithPlan.milestone")
      ELSE /\ Complete(resp, Returned([milestones |-> done.createdMilestones,
                                       project |-> loc.projectResponse]))
           /\ locals' = done

\* mutant: the guard is projectId === undefined, so an empty id passes
createProjectWithPlanProjectStrictGuard ==
  /\ pc = "createProjectWithPlan.project"
  /\ \E resp \in clientResponses(pending[1]) :
       IF ~resp.ok
       THEN Complete(resp, Thrown(rethrow(rethrow(resp.error)))) /\ UNCHANGED locals
       ELSE LET loc == [locals EXCEPT !.projectResponse = resp.value,
                                      !.projectId = projectIdOf(resp.value)]
            IN  IF loc.projectId = undefined
                THEN Complete(resp, Thrown(rethrow(ProjectIdError))) /\ locals' = loc
                ELSE IF Len(plan.milestones) = 0
                THEN Complete(resp, Returned([milestones |-> <<>>,
                                              project |-> loc.projectResponse]))
                     /\ locals' = loc
                ELSE Continue(resp, [loc EXCEPT !.m = 1],
                              markerRequest(call.args[1], loc.projectId[1], plan.milestones[1]),
                              "marker", 1, 0, "createProjectWithPlan.milestone")

\* the project creation was answered: extract the id, start the loop
createProjectWithPlanProject ==
  /\ pc = "createProjectWithPlan.project"
  /\ \E resp \in clientResponses(pending[1]) :
       IF ~resp.ok
       THEN Complete(resp, Thrown(rethrow(rethrow(resp.error)))) /\ UNCHANGED locals
       ELSE LET loc == [locals EXCEPT !.projectResponse = resp.value,
                                      !.projectId = projectIdOf(resp.value)]
            IN  IF Falsy(loc.projectId)
                THEN Complete(resp, Thrown(rethrow(ProjectIdError))) /\ locals' = loc
                ELSE IF Len(plan.milestones) = 0
                THEN Complete(resp, Returned([milestones |-> <<>>,
                                              project |-> loc.projectResponse]))
                     /\ locals' = loc
                ELSE Continue(resp, [loc EXCEPT !.m = 1],
                              markerRequest(call.args[1], loc.projectId[1], plan.milestones[1]),
                              "marker", 1, 0, "createProjectWithPlan.milestone")

\* mutant: a failed marker creation is sent a second time
createProjectWithPlanMilestoneRetry ==
  /\ pc = "createProjectWithPlan.milestone"
  /\ \E resp \in clientResponses(pending[1]) :
       IF ~resp.ok
       THEN IF Len(history) >= 2 /\ history[Len(history) - 1].outcome \notin {"ok", "pending"}
            THEN Complete(resp, Thrown(rethrow(rethrow(resp.error)))) /\ UNCHANGED locals
            ELSE Continue(resp, locals, pending[1], "marker", locals.m, 0,
                          "createProjectWithPlan.milestone")
       ELSE LET loc == [locals EXCEPT !.milestoneIssue = resp.value,
                                      !.createdIssues = <<>>]
                milestone == plan.milestones[locals.m]
            IN  IF Len(milestone.issues) > 0
                THEN Continue(resp, [loc EXCEPT !.i = 1],
                              childRequest(revision, call.args[1], loc.projectId[1],
                                           milestone.issues[1], call.args[2]),
                              "child", locals.m, 1, "createProjectWithPlan.issue")
                ELSE finishMilestone(resp, loc, locals.m)

\* mutant: createdIssues is declared outside the milestone loop and so is
\* not emptied for the next milestone
createProjectWithPlanMilestoneAccumulating ==
  /\ pc = "createProjectWithPlan.milestone"
  /\ \E resp \in clientResponses(pending[1]) :
       IF ~resp.ok
       THEN Complete(resp, Thrown(rethrow(rethrow(resp.error)))) /\ UNCHANGED locals
       ELSE LET loc == [locals EXCEPT !.milestoneIssue = resp.value]
                milestone == plan.milestones[locals.m]
            IN  IF Len(milestone.issues) > 0
                THEN Continue(resp, [loc EXCEPT !.i = 1],
                              childRequest(revision, call.args[1], loc.projectId[1],
                                           milestone.issues[1], call.args[2]),
                              "child", locals.m, 1, "createProjectWithPlan.issue")
                ELSE finishMilestone(resp, loc, locals.m)

\* the marker issue of milestone locals.m was answered
createProjectWithPlanMilestone ==
  /\ pc = "createProjectWithPlan.milestone"
  /\ \E resp \in clientResponses(pending[1]) :
       IF ~resp.ok
       THEN Complete(resp, Thrown(rethrow(rethrow(resp.error)))) /\ UNCHANGED locals
       ELSE LET loc == [locals EXCEPT !.milestoneIssue = resp.value,
                                      !.createdIssues = <<>>]
                milestone == plan.milestones[locals.m]
            IN  IF Len(milestone.issues) > 0
                THEN Continue(resp, [loc EXCEPT !.i = 1],
                              childRequest(revision, call.args[1], loc.projectId[1],
                                           milestone.issues[1], call.args[2]),
                              "child", locals.m, 1, "createProjectWithPlan.issue")
                ELSE finishMilestone(resp, loc, locals.m)

\* mutant: a failed issue creation is logged and skipped, the loop goes on
createProjectWithPlanIssueBestEffort ==
  /\ pc = "createProjectWithPlan.issue"
  /\ \E resp \in clientResponses(pending[1]) :
       LET loc == IF resp.ok
                  THEN [locals EXCEPT !.createdIssues = Append(@, resp.value)]
                  ELSE locals
           milestone == plan.milestones[locals.m]
       IN  IF locals.i < Len(milestone.issues)
           THEN Continue(resp, [loc EXCEPT !.i = locals.i + 1],
                         childRequest(revision, call.args[1], loc.projectId[1],
                                      milestone.issues[locals.i + 1], call.args[2]),
                         "child", locals.m, locals.i + 1, "createProjectWithPlan.issue")
           ELSE finishMilestone(resp, loc, locals.m)

\* mutant: the await on an issue creation gives up after a timeout and the
\* call throws without the response
createProjectWithPlanIssueTimeout ==
  /\ pc = "createProjectWithPlan.issue"
  /\ \/ \E resp \in clientResponses(pending[1]) :
          IF ~resp.ok
          THEN Complete(resp, Thrown(rethrow(rethrow(resp.error)))) /\ UNCHANGED locals
          ELSE LET loc == [locals EXCEPT !.createdIssues = Append(@, resp.value)]
                   milestone == plan.milestones[locals.m]
               IN  IF locals.i < Len(milestone.issues)
                   THEN Continue(resp, [loc EXCEPT !.i = locals.i + 1],
                                 childRequest(revision, call.args[1], loc.projectId[1],
                                              milestone.issues[locals.i + 1], call.args[2]),
                                 "child", locals.m, locals.i + 1, "createProjectWithPlan.issue")
                   ELSE finishMilestone(resp, loc, locals.m)
     \/ /\ pc' = "done"
        /\ pending' = undefined
        /\ result' = Thrown(rethrow("Timeout"))
        /\ UNCHANGED <<revision, call, locals, history, ext, nextId, ncalls, input,
                       budget, other, switches>>

\* the issue of template locals.i of milestone locals.m was answered
createProjectWithPlanIssue ==
  /\ pc = "createProjectWithPlan.issue"
  /\ \E resp \in clientResponses(pending[1]) :
       IF ~resp.ok
       THEN Complete(resp, Thrown(rethrow(rethrow(resp.error)))) /\ UNCHANGED locals
       ELSE LET loc == [locals EXCEPT !.createdIssues = Append(@, resp.value)]
                milestone == plan.milestones[locals.m]
            IN  IF locals.i < Len(milestone.issues)
                THEN Continue(resp, [loc EXCEPT !.i = locals.i + 1],
                              childRequest(revision, call.args[1], loc.projectId[1],
                                           milestone.issues[locals.i + 1], call.args[2]),
                              "child", locals.m, locals.i + 1, "createProjectWithPlan.issue")
                ELSE finishMilestone(resp, loc, locals.m)

\* ------------------------------------------------------------------------
\* Specifications
\* ------------------------------------------------------------------------

Next ==
  \/ \E params \in CreateTeamInputs : createTeam(params)
  \/ createTeamDone
  \/ \E params \in CreateProjectInputs : createProject(params)
  \/ createProjectDone
  \/ \E params \in CreateIssueInputs : createIssue(params)
  \/ createIssueDone
  \/ getTeams
  \/ getTeamsDone
  \/ \E teamId \in LookupTeamIds : getProjects(teamId)
  \/ getProjectsTeam
  \/ getProjectsDone
  \/ \E teamId \in TeamIds, projectId \in ProjectIdInputs : getIssues(teamId, projectId)
  \/ getIssuesDone
  \/ \E issueId \in IssueIds, updates \in UpdateInputs : updateIssue(issueId, updates)
  \/ updateIssueFetched
  \/ updateIssueDone
  \/ \E issueId \in IssueIds : deleteIssue(issueId)
  \/ deleteIssueFetched
  \/ deleteIssueDone
  \/ \E params \in OrchestrationInputs : generateProjectPlan(params)
  \/ \E teamId \in TeamIds, params \in OrchestrationInputs : createProjectWithPlan(teamId, params)
  \/ createProjectWithPlanProject
  \/ createProjectWithPlanMilestone
  \/ createProjectWithPlanIssue

Spec == Init /\ [][Next]_vars

\* the plan generator alone, applied to the input the caller holds
NextPlan == generateProjectPlan(input[1])

SpecPlan == InitPlan /\ [][NextPlan]_vars

\* the gateway operations alone, for a caller that makes several calls on
\* an account that already holds a team and an issue
MaxGatewayCalls == 3

PopulatedExt == [issues |-> {"issue-1"}, teams |-> {"team-1"}, projects |-> {}]

InitGateway ==
  /\ revision \in Revisions
  /\ pc = "idle"
  /\ call = NoCall
  /\ pending = <<>>
  /\ locals = NoLocals
  /\ result = NoResult
  /\ history = <<>>
  /\ ext = PopulatedExt
  /\ nextId = 0
  /\ ncalls = 0
  /\ input = undefined
  /\ budget = MaxGatewayCalls
  /\ other = IdleContext
  /\ switches = 0

NextGateway ==
  \/ \E params \in CreateTeamInputs : createTeam(params)
  \/ createTeamDone
  \/ \E params \in CreateProjectInputs : createProject(params)
  \/ createProjectDone
  \/ \E params \in CreateIssueInputs : createIssue(params)
  \/ createIssueDone
  \/ getTeams
  \/ getTeamsDone
  \/ \E teamId \in LookupTeamIds : getProjects(teamId)
  \/ getProjectsTeam
  \/ getProjectsDone
  \/ \E teamId \in TeamIds, projectId \in ProjectIdInputs : getIssues(teamId, projectId)
  \/ getIssuesDone
  \/ \E issueId \in IssueIds, updates \in UpdateInputs : updateIssue(issueId, updates)
  \/ updateIssueFetched
  \/ updateIssueDone
  \/ \E issueId \in IssueIds : deleteIssue(issueId)
  \/ deleteIssueFetched
  \/ deleteIssueDone

SpecGateway == InitGateway /\ [][NextGateway]_vars

\* two callers use the same instance at once; the event loop runs one
\* invocation at a time and goes from one to the other at their awaits
MaxSwitches == 2

\* the calls the two callers make, in the order they start: different
\* projects, different templates
ConcurrentCalls ==
  <<planParams("Acme Portal", "internal tooling", Some("Digital Marketing"),
               undefined, Some("developers")),
    planParams("Launch 2.0", "brand refresh", Some("Graphic Design"),
               Some(<<"React", "PostgreSQL">>), undefined)>>

InitConcurrent ==
  /\ revision = "full"
  /\ pc = "idle"
  /\ call = NoCall
  /\ pending = <<>>
  /\ locals = NoLocals
  /\ result = NoResult
  /\ history = <<>>
  /\ ext = PopulatedExt
  /\ nextId = 0
  /\ ncalls = 0
  /\ input = undefined
  /\ budget = Len(ConcurrentCalls)
  /\ other = IdleContext
  /\ switches = 0

\* mutant: createdMilestones and createdIssues are fields of the instance,
\* so they stay where they are when the event loop changes invocation
InterleaveSharedAccumulators ==
  /\ pc # "idle"
  /\ result.kind # "throw"
  /\ other.pc # "done"
  /\ switches < MaxSwitches
  /\ switches' = switches + 1
  /\ pc' = other.pc
  /\ call' = other.call
  /\ pending' = other.pending
  /\ locals' = [other.locals EXCEPT !.createdIssues = locals.createdIssues,
                                    !.createdMilestones = locals.createdMilestones]
  /\ result' = other.result
  /\ history' = other.history
  /\ other' = [pc |-> pc, call |-> call, pending |-> pending, locals |-> locals,
               result |-> result, history |-> history]
  /\ UNCHANGED <<revision, ext, nextId, ncalls, input, budget>>

\* the invocation that was running is suspended at its await (or has
\* returned) and the event loop runs the other one, which is about to start
\* or is suspended itself; a call that threw ends the scenario. Each
\* invocation keeps its own position, plan, projectId, createdMilestones
\* and createdIssues
Interleave ==
  /\ pc # "idle"
  /\ result.kind # "throw"
  /\ other.pc # "done"
  /\ switches < MaxSwitches
  /\ switches' = switches + 1
  /\ pc' = other.pc
  /\ call' = other.call
  /\ pending' = other.pending
  /\ locals' = other.locals
  /\ result' = other.result
  /\ history' = other.history
  /\ other' = [pc |-> pc, call |-> call, pending |-> pending, locals |-> locals,
               result |-> result, history |-> history]
  /\ UNCHANGED <<revision, ext, nextId, ncalls, input, budget>>

NextConcurrent ==
  \/ \E teamId \in TeamIds, k \in 1..Len(ConcurrentCalls) :
       k = ncalls + 1 /\ createProjectWithPlan(teamId, ConcurrentCalls[k])
  \/ createProjectWithPlanProject
  \/ createProjectWithPlanMilestone
  \/ createProjectWithPlanIssue
  \/ Interleave

SpecConcurrent == InitConcurrent /\ [][NextConcurrent]_vars

\* the Detail Expander alone, applied to the description and PlanParams
\* the caller holds
ExpanderDescriptions ==
  {"Set up the database schema",
   "Design the schema",
   "Write the release notes",
   "Harden Security of the REST API",
   "Verify the ui test against the api database security",
   "QA sign-off",
   "Add auth tokens to every endpoint",
   "Plan the frontend interface",
   "Document the database and its security model"}

ExpanderParams ==
  {planParams(name, scope, undefined, reqs, undefined) :
     name \in {"Acme Portal"}, scope \in {"internal tooling", "brand refresh"},
     reqs \in {undefined, Some(<<>>), Some(<<"React">>),
               Some(<<"React", "PostgreSQL">>), Some(<<"PostgreSQL", "React", "Redis">>)}}

InitExpand ==
  /\ revision \in Revisions
  /\ pc = "idle"
  /\ call = NoCall
  /\ pending = <<>>
  /\ locals = NoLocals
  /\ result = NoResult
  /\ history = <<>>
  /\ ext \in InitialExt
  /\ nextId = 0
  /\ ncalls = 0
  /\ input \in {Some([planParams |-> p, baseDescription |-> d]) :
                  d \in ExpanderDescriptions, p \in ExpanderParams}
  /\ budget = MaxCalls
  /\ other = IdleContext
  /\ switches = 0

\* generateDetailedIssueDescription has no await: it completes in one step
generateDetailedIssueDescriptionCall(description, params) ==
  /\ pc \in {"idle", "done"}
  /\ ncalls < budget
  /\ ncalls' = ncalls + 1
  /\ call' = [op |-> "generateDetailedIssueDescription",
              args |-> <<description, params>>]
  /\ result' = Returned(expandDescription(revision, description, params))
  /\ pc' = "done"
  /\ pending' = undefined
  /\ history' = <<>>
  /\ locals' = NoLocals
  /\ UNCHANGED <<revision, ext, nextId, input, budget, other, switches>>

NextExpand ==
  generateDetailedIssueDescriptionCall(input[1].baseDescription, input[1].planParams)

SpecExpand == InitExpand /\ [][NextExpand]_vars

\* the orchestration alone, with a client that answers every request in
\* the end: the response to the request in flight is eventually delivered
NextOrchestration ==
  \/ \E teamId \in TeamIds, params \in OrchestrationInputs : createProjectWithPlan(teamId, params)
  \/ createProjectWithPlanProject
  \/ createProjectWithPlanMilestone
  \/ createProjectWithPlanIssue

InitResponsive ==
  /\ revision \in Revisions
  /\ pc = "idle"
  /\ call = NoCall
  /\ pending = <<>>
  /\ locals = NoLocals
  /\ result = NoResult
  /\ history = <<>>
  /\ ext = PopulatedExt
  /\ nextId = 0
  /\ ncalls = 0
  /\ input = undefined
  /\ budget = MaxCalls
  /\ other = IdleContext
  /\ switches = 0

SpecResponsive ==
  /\ InitResponsive
  /\ [][NextOrchestration]_vars
  /\ WF_vars(createProjectWithPlanProject)
  /\ WF_vars(createProjectWithPlanMilestone)
  /\ WF_vars(createProjectWithPlanIssue)

\* ------------------------------------------------------------------------
\* Properties of the plan generator (checked under SpecPlan)
\* ------------------------------------------------------------------------

\* a generateProjectPlan call has completed
PlanGenerated == call.op = "generateProjectPlan" /\ pc = "done"

\* two characters are the same letter, whatever their case
SameLetter(a, b) ==
  \/ a = b
  \/ a \in UpperCase /\ LowerOf[a] = b
  \/ b \in UpperCase /\ LowerOf[b] = a

\* kw occurs in s when case is ignored
ContainsIgnoringCase(s, kw) ==
  \E i \in 1..(Len(s) - Len(kw) + 1) :
    \A j \in 1..Len(kw) :
      SameLetter(SubSeq(s, i + j - 1, i + j - 1), SubSeq(kw, j, j))

\* the template the selection rule names for an industry value
TemplateFor(industry) ==
  IF industry = undefined THEN "software"
  ELSE IF industry[1] = "" THEN "software"
  ELSE IF ContainsIgnoringCase(industry[1], "software") THEN "software"
  ELSE IF ContainsIgnoringCase(industry[1], "marketing") THEN "marketing"
  ELSE IF ContainsIgnoringCase(industry[1], "design") THEN "design"
  ELSE "generic"

\* the plan a template yields for params
TemplatePlan(name, rev, params) ==
  CASE name = "software" -> softwarePlan(rev, params)
    [] name = "marketing" -> createMarketingPlan(params)
    [] name = "design" -> createDesignPlan(params)
    [] name = "generic" -> createGenericPlan(params)

TemplateNames == {"software", "marketing", "design", "generic"}

\* the templates the returned plan is equal to
SelectedTemplates ==
  {n \in TemplateNames : result.value = TemplatePlan(n, revision, call.args[1])}

\* the spec's named examples
ExampleTemplates ==
  [i \in {Some("Software Engineering"), Some("SOFTWARE"), Some(""), undefined,
          Some("Digital Marketing"), Some("Graphic Design"), Some("Healthcare")} |->
     CASE i = Some("Digital Marketing") -> "marketing"
       [] i = Some("Graphic Design") -> "design"
       [] i = Some("Healthcare") -> "generic"
       [] OTHER -> "software"]

\* C1: generateProjectPlan returns the plan of exactly one template, the one
\* the ordered rule names: software when industry is absent, empty or
\* contains "software" in any case, else marketing when it contains
\* "marketing", else design when it contains "design", else generic; the
\* named examples resolve as the spec lists them.
C1_TemplateSelection ==
  PlanGenerated =>
    /\ result.kind = "return"
    /\ SelectedTemplates = {TemplateFor(call.args[1].industry)}
    /\ call.args[1].industry \in DOMAIN ExampleTemplates =>
         SelectedTemplates = {ExampleTemplates[call.args[1].industry]}

\* an upper-case industry has been resolved to the software template
C1_Witness ==
  /\ PlanGenerated
  /\ call.args[1].industry = Some("SOFTWARE")
  /\ result.value = softwarePlan(revision, call.args[1])

\* C8: every returned plan has at least one milestone and every issue
\* template in it has a priority of 1, 2 or 3.
C8_PlanShape ==
  PlanGenerated =>
    /\ Len(result.value.milestones) >= 1
    /\ \A m \in 1..Len(result.value.milestones) :
         \A i \in 1..Len(result.value.milestones[m].issues) :
           result.value.milestones[m].issues[i].priority \in {1, 2, 3}

\* a generic plan, whose issue templates use priorities 1 and 2, was returned
C8_Witness ==
  /\ PlanGenerated
  /\ call.args[1].industry = Some("Healthcare")
  /\ Len(result.value.milestones) = 6
  /\ result.value.milestones[1].issues[3].priority = 2

\* C9 as stated: every returned plan has between 5 and 7 milestones.
C9_Original ==
  PlanGenerated =>
    (Len(result.value.milestones) >= 5 /\ Len(result.value.milestones) <= 7)

\* C9 amended: every returned plan has between 5 and 8 milestones; the
\* software template of the full revision has 8, that of the basic revision
\* 6, the marketing and design templates 5 and the generic template 6.
C9_MilestoneCounts ==
  PlanGenerated =>
    LET n == Len(result.value.milestones)
        t == TemplateFor(call.args[1].industry)
    IN  /\ n >= 5 /\ n <= 8
        /\ t = "software" => n = (IF revision = "full" THEN 8 ELSE 6)
        /\ t \in {"marketing", "design"} => n = 5
        /\ t = "generic" => n = 6

\* the software plan of the full revision, with 8 milestones, was returned
C9_Witness ==
  /\ PlanGenerated
  /\ revision = "full"
  /\ call.args[1].industry = undefined
  /\ Len(result.value.milestones) = 8

\* C10: an industry naming several keywords resolves by the check order
\* software, marketing, design, wherever the keywords stand in the string.
C10_FirstKeywordWins ==
  PlanGenerated /\ call.args[1].industry # undefined =>
    LET s == call.args[1].industry[1]
        sw == ContainsIgnoringCase(s, "software")
        mk == ContainsIgnoringCase(s, "marketing")
        de == ContainsIgnoringCase(s, "design")
    IN  /\ sw /\ (mk \/ de) => result.value = softwarePlan(revision, call.args[1])
        /\ mk /\ de /\ ~sw => result.value = createMarketingPlan(call.args[1])

\* "design" stands before "marketing" in the string, marketing was selected
C10_Witness ==
  /\ PlanGenerated
  /\ call.args[1].industry = Some("design & MARKETING")
  /\ result.value = createMarketingPlan(call.args[1])

\* ------------------------------------------------------------------------
\* Properties of createProjectWithPlan and of the gateway (checked under Spec)
\* ------------------------------------------------------------------------

\* the call in flight or last completed is a createProjectWithPlan call
Orchestrating == call.op = "createProjectWithPlan"

\* the plan generated for the PlanParams of that call
GeneratedPlan == createDetailedProjectPlan(revision, call.args[2])

\* the external call recorded in history entry e failed
Failed(e) == e.outcome \notin {"ok", "pending"}

\* number of requests of the call to the client operation api
CountApi(api) == Cardinality({k \in 1..Len(history) : history[k].api = api})

\* number of requests of the call in the role kind
CountKind(kind) == Cardinality({k \in 1..Len(history) : history[k].kind = kind})

\* number of issue templates of the milestones from number m on
RECURSIVE TemplatesFrom(_, _)
TemplatesFrom(p, m) ==
  IF m > Len(p.milestones) THEN 0
  ELSE Len(p.milestones[m].issues) + TemplatesFrom(p, m + 1)

\* the creation requests the plan p calls for after the project, in order:
\* for each milestone its marker, then its issue templates
RECURSIVE IssueOrderFrom(_, _)
IssueOrderFrom(p, m) ==
  IF m > Len(p.milestones) THEN <<>>
  ELSE <<[api |-> "createIssue", subject |-> "Milestone: " \o p.milestones[m].title]>>
       \o [i \in 1..Len(p.milestones[m].issues) |->
             [api |-> "createIssue", subject |-> p.milestones[m].issues[i].title]]
       \o IssueOrderFrom(p, m + 1)

ExpectedOrder ==
  <<[api |-> "createProject", subject |-> call.args[2].projectName]>>
  \o IssueOrderFrom(GeneratedPlan, 1)

\* the call has completed and every request was answered with a created
\* entity (for the project, one that carries a non-empty id)
EveryCallSucceeded ==
  /\ Orchestrating /\ pc = "done"
  /\ \A k \in 1..Len(history) : history[k].outcome = "ok"
  /\ ~Falsy(projectIdOf(locals.projectResponse))

\* C2: when every external call succeeds, the call has created the project
\* exactly once and issues exactly (milestones + issue templates) times, one
\* marker per milestone and one issue per template, and nothing else.
C2_CreationCounts ==
  EveryCallSucceeded =>
    LET p == GeneratedPlan
        templates == TemplatesFrom(p, 1)
        created == CountApi("createIssue")
    IN  /\ result.kind = "return"
        /\ CountApi("createProject") = 1
        /\ CountKind("marker") = Len(p.milestones)
        /\ CountKind("child") = templates
        /\ created = Len(p.milestones) + templates
        /\ Len(history) = 1 + created

\* the full software plan was materialised: 1 project, 8 markers, 56 issues
C2_Witness ==
  /\ EveryCallSucceeded
  /\ revision = "full"
  /\ call.args[2].industry = undefined
  /\ CountKind("marker") = 8
  /\ CountKind("child") = 56

\* C3: the requests of a call follow the plan order (project, then per
\* milestone its marker and its issues in template order) and each request
\* is sent only after all earlier ones were answered with success.
C3_SequentialOrder ==
  Orchestrating =>
    LET expected == ExpectedOrder
    IN  /\ Len(history) >= 1 /\ Len(history) <= Len(expected)
        /\ \A k \in 1..Len(history) :
             /\ history[k].api = expected[k].api
             /\ history[k].subject = expected[k].subject
             /\ k < Len(history) => history[k].outcome = "ok"
        /\ pending # undefined <=> history[Len(history)].outcome = "pending"

\* the second milestone's marker is in flight after the first milestone's
\* marker and all of its issues
C3_Witness ==
  /\ Orchestrating
  /\ revision = "basic"
  /\ call.args[2].industry = undefined
  /\ Len(history) = 6
  /\ history[2].kind = "marker" /\ history[5].kind = "child"
  /\ history[6].subject = "Milestone: Design & Prototyping"
  /\ history[6].outcome = "pending"

\* C4: when project creation returns an object without an id field, the
\* call fails with the fixed project-id error and has created no issue.
C4_MissingProjectId ==
  (/\ Orchestrating /\ pc = "done"
   /\ history[1].outcome = "ok"
   /\ locals.projectResponse = jsObject(undefined)) =>
    /\ result = Thrown(ProjectIdError)
    /\ result.error = "Failed to get project ID from creation response"
    /\ CountApi("createIssue") = 0
    /\ Len(history) = 1

\* the project was created, its response had no id, the call has failed
C4_Witness ==
  /\ Orchestrating /\ pc = "done"
  /\ history[1].outcome = "ok"
  /\ locals.projectResponse = jsObject(undefined)
  /\ result.kind = "throw"
  /\ nextId = 1

\* C5: a failed creation is the last request of the call: the call has
\* completed by throwing and carries no result value.
C5_FailureAborts ==
  Orchestrating =>
    \A k \in 1..Len(history) :
      Failed(history[k]) =>
        /\ k = Len(history)
        /\ pc = "done"
        /\ pending = undefined
        /\ result.kind = "throw"
        /\ result.value = jsUndefined

\* the second issue of the second milestone failed after five successes
C5_Witness ==
  /\ Orchestrating /\ pc = "done"
  /\ Len(history) >= 3
  /\ history[Len(history)].kind = "child"
  /\ history[Len(history)].m = 2 /\ history[Len(history)].i = 2
  /\ Failed(history[Len(history)])
  /\ result.kind = "throw"

\* ids of the issues the call in flight has been told were created
CreatedIssueIds ==
  LET objs == {locals.createdIssues[k] : k \in 1..Len(locals.createdIssues)}
              \cup {locals.createdMilestones[k].milestone :
                      k \in 1..Len(locals.createdMilestones)}
              \cup UNION {{locals.createdMilestones[k].issues[j] :
                             j \in 1..Len(locals.createdMilestones[k].issues)} :
                           k \in 1..Len(locals.createdMilestones)}
              \cup (IF locals.milestoneIssue.t = "object"
                    THEN {locals.milestoneIssue} ELSE {})
  IN  {o.id[1] : o \in objs}

\* C6: no step of a createProjectWithPlan call removes an entity from the
\* external system or sends anything but creation requests, no role is
\* requested twice, and what the call created is still there afterwards.
C6_NoCompensationNoRetry ==
  [][Orchestrating' =>
       /\ ext.projects \subseteq ext'.projects
       /\ ext.issues \subseteq ext'.issues
       /\ \A k \in 1..Len(history') :
            history'[k].api \in {"createProject", "createIssue"}
       /\ \A j, k \in 1..Len(history') :
            (/\ history'[j].kind = history'[k].kind
             /\ history'[j].m = history'[k].m
             /\ history'[j].i = history'[k].i) => j = k
       /\ CreatedIssueIds' \subseteq ext'.issues
       /\ locals'.projectId # undefined /\ locals'.projectId[1] # ""
            => locals'.projectId[1] \in ext'.projects]_vars

\* a marker failed after the project and a whole milestone were created:
\* they are all still in the external system
C6_Witness ==
  /\ Orchestrating /\ pc = "done" /\ result.kind = "throw"
  /\ history[Len(history)].kind = "marker"
  /\ history[Len(history)].m = 2
  /\ Failed(history[Len(history)])
  /\ Cardinality(CreatedIssueIds) = 4
  /\ CreatedIssueIds \subseteq ext.issues
  /\ locals.projectId[1] \in ext.projects

\* C7: for every operation, when an external call of it failed with e the
\* operation has thrown exactly e; an operation that returned a value had
\* no failed external call.
C7_ErrorsPropagateUnchanged ==
  /\ \A k \in 1..Len(history) :
       Failed(history[k]) =>
         /\ pc = "done"
         /\ result = Thrown(history[k].outcome)
  /\ result.kind = "return" =>
       \A k \in 1..Len(history) : history[k].outcome = "ok"

\* getProjects resolved the team, the projects request then failed with a
\* network error, which is what the caller got
C7_Witness ==
  /\ call.op = "getProjects" /\ pc = "done"
  /\ Len(history) = 2
  /\ history[1].outcome = "ok"
  /\ history[2].outcome = "NetworkError"
  /\ result.kind = "throw" /\ result.error = "NetworkError"

\* ------------------------------------------------------------------------
\* Frame of the plan generator (checked under Spec)
\* ------------------------------------------------------------------------

\* C12: the step that is a generateProjectPlan call sends no request to the
\* external client (none is recorded, none is left in flight) and leaves
\* the external system as it was.
C12_PlanGenerationNoIO ==
  [][(call'.op = "generateProjectPlan" /\ ncalls' # ncalls) =>
       /\ history' = <<>>
       /\ pending' = undefined
       /\ pc' = "done"
       /\ ext' = ext
       /\ nextId' = nextId]_vars

\* a plan was generated on an instance whose external system holds
\* entities: they are all still there and no request was sent
C12_Witness ==
  /\ PlanGenerated
  /\ result.kind = "return"
  /\ history = <<>>
  /\ ext.issues = {"issue-1"} /\ ext.teams = {"team-1"}

\* ------------------------------------------------------------------------
\* Content of the generated plan (checked under SpecPlan)
\* ------------------------------------------------------------------------

\* C13: whichever template is selected, the projectDescription of the
\* returned plan contains the projectName and the projectScope of the
\* params, literally.
C13_DescriptionNamesProject ==
  PlanGenerated =>
    /\ includes(result.value.projectDescription, call.args[1].projectName)
    /\ includes(result.value.projectDescription, call.args[1].projectScope)

\* the generic plan of a project with another name and scope
C13_Witness ==
  /\ PlanGenerated
  /\ call.args[1].projectName = "Launch 2.0"
  /\ call.args[1].projectScope = "brand refresh"
  /\ call.args[1].industry = Some("Healthcare")
  /\ result.value.projectDescription
       = "Launch 2.0: A comprehensive project focusing on brand refresh. This initiative will systematically address key objectives while ensuring quality, timeliness, and stakeholder satisfaction."

\* the params select the software template
SoftwareSelected ==
  PlanGenerated /\ TemplateFor(call.args[1].industry) = "software"

\* C14 as stated: the first milestone of a software plan is titled
\* "Discovery & Analysis".
C14_Original ==
  SoftwareSelected =>
    result.value.milestones[1].title = "Discovery & Analysis"

\* C14: the first milestone of a software plan is titled "Discovery &
\* Analysis" in the revision of src/src/LinearMCP.ts and "Requirements &
\* Planning" in the older revision.
C14_FirstSoftwareMilestone ==
  SoftwareSelected =>
    result.value.milestones[1].title
      = (IF revision = "full" THEN "Discovery & Analysis"
         ELSE "Requirements & Planning")

\* the spec's scenario on the current revision
C14_Witness ==
  /\ SoftwareSelected
  /\ revision = "full"
  /\ call.args[1].projectName = "Acme Portal"
  /\ call.args[1].projectScope = "internal tooling"
  /\ call.args[1].industry = Some("software")
  /\ result.value.milestones[1].title = "Discovery & Analysis"

\* ------------------------------------------------------------------------
\* Result and requests of createProjectWithPlan (checked under Spec)
\* ------------------------------------------------------------------------

\* the entity the external system created for the k-th request of a call
\* all of whose requests succeeded
CreatedBy(k) == jsObject(Some(entityId(nextId - Len(history) + k)))

\* C15: a successful call returns {project, milestones}: project is what
\* the project creation answered; milestones has one entry per plan
\* milestone, in plan order; entry m holds the marker created for plan
\* milestone m and, in template order, the issues created for its templates.
C15_ResultMirrorsPlan ==
  EveryCallSucceeded =>
    LET p == GeneratedPlan
        returned == result.value
    IN  /\ result.kind = "return"
        /\ DOMAIN returned = {"project", "milestones"}
        /\ returned.project = CreatedBy(1)
        /\ Len(returned.milestones) = Len(p.milestones)
        /\ \A m \in 1..Len(p.milestones) :
             /\ DOMAIN returned.milestones[m] = {"milestone", "issues"}
             /\ Len(returned.milestones[m].issues) = Len(p.milestones[m].issues)
        /\ \A k \in 2..Len(history) :
             LET e == history[k]
             IN  IF e.kind = "marker"
                 THEN /\ e.subject = "Milestone: " \o p.milestones[e.m].title
                      /\ returned.milestones[e.m].milestone = CreatedBy(k)
                 ELSE /\ e.subject = p.milestones[e.m].issues[e.i].title
                      /\ returned.milestones[e.m].issues[e.i] = CreatedBy(k)

\* the design plan was materialised: 5 entries of 3 issues; the second
\* entry holds the 6th created entity as marker and the 9th as third issue
C15_Witness ==
  /\ EveryCallSucceeded
  /\ call.args[2].industry = Some("Graphic Design")
  /\ result.value.project = jsObject(Some("id-1"))
  /\ Len(result.value.milestones) = 5
  /\ result.value.milestones[2].milestone = jsObject(Some("id-6"))
  /\ result.value.milestones[2].issues = <<jsObject(Some("id-7")),
                                           jsObject(Some("id-8")),
                                           jsObject(Some("id-9"))>>

\* the request in flight is the marker issue of a milestone
MarkerInFlight ==
  /\ Orchestrating
  /\ pending # undefined
  /\ history[Len(history)].kind = "marker"

\* the milestones the call has requested a marker for, one per request
MarkerRequests == {k \in 1..Len(history) : history[k].kind = "marker"}

\* C16: every marker request is a createIssue titled "Milestone: <title>"
\* with priority 1, labels ["milestone"] and the milestone's own description
\* (not its expansion); no milestone gets two markers, and a successful call
\* has requested one for every plan milestone.
C16_MarkerIssue ==
  /\ MarkerInFlight =>
       LET milestone == GeneratedPlan.milestones[history[Len(history)].m]
           params == pending[1].arg
       IN  /\ pending[1].api = "createIssue"
           /\ params.title = "Milestone: " \o milestone.title
           /\ params.priority = Some(1)
           /\ params.labels = Some(<<"milestone">>)
           /\ params.description = Some(milestone.description)
           /\ params.teamId = call.args[1]
           /\ params.projectId = locals.projectId
  /\ Orchestrating =>
       Cardinality({history[k].m : k \in MarkerRequests})
         = Cardinality(MarkerRequests)
  /\ EveryCallSucceeded =>
       {history[k].m : k \in MarkerRequests}
         = 1..Len(GeneratedPlan.milestones)

\* the marker of the third software milestone is in flight
C16_Witness ==
  /\ MarkerInFlight
  /\ revision = "full"
  /\ call.args[2].industry = Some("software")
  /\ history[Len(history)].m = 3
  /\ pending[1].arg.title = "Milestone: Design & Prototyping"
  /\ pending[1].arg.description
       = Some("Create UI/UX designs and interactive prototypes for key user flows.")
  /\ pending[1].arg.priority = Some(1)
  /\ pending[1].arg.labels = Some(<<"milestone">>)

\* ------------------------------------------------------------------------
\* Properties of the gateway operations (checked under SpecGateway)
\* ------------------------------------------------------------------------

\* the request of a getIssues call is in flight
IssuesQueried == call.op = "getIssues" /\ pending # undefined

\* the filter of the request in flight has exactly the team clause and,
\* when withProject, the project clause of the call's arguments
FilterIs(withProject) ==
  LET filter == pending[1].arg.filter
  IN  /\ pending[1].api = "issues"
      /\ Len(history) = 1
      /\ DOMAIN pending[1].arg = {"filter"}
      /\ DOMAIN filter = (IF withProject THEN {"team", "project"} ELSE {"team"})
      /\ filter.team = [id |-> [eq |-> call.args[1]]]
      /\ withProject => filter.project = [id |-> [eq |-> call.args[2][1]]]

\* C17 as stated: the filter has the project clause exactly when a
\* projectId is supplied.
C17_Original ==
  IssuesQueried => FilterIs(call.args[2] # undefined)

\* C17: getIssues sends one query whose filter always has the equality
\* clause team.id = teamId, has the equality clause project.id = projectId
\* exactly when projectId is a non-empty string, and has no other clause.
C17_IssueFilter ==
  IssuesQueried =>
    FilterIs(call.args[2] # undefined /\ call.args[2][1] # "")

\* a query for the issues of a project of the team is in flight
C17_Witness ==
  /\ IssuesQueried
  /\ call.args = <<"team-1", Some("project-1")>>
  /\ pending[1].arg.filter.team.id.eq = "team-1"
  /\ pending[1].arg.filter.project.id.eq = "project-1"

\* the call in flight or last completed is an updateIssue call
Updating == call.op = "updateIssue"

\* C18: updateIssue first requests the issue by id; the update is its second
\* request, sent only after the fetch succeeded and addressed to the fetched
\* issue with the caller's updates. When the id does not resolve, the call
\* throws and no update request is ever sent.
C18_FetchThenUpdate ==
  Updating =>
    /\ Len(history) \in {1, 2}
    /\ history[1].api = "issue"
    /\ (Len(history) = 1 /\ pending # undefined) =>
         pending[1] = request("issue", call.args[1], <<>>)
    /\ Len(history) = 2 =>
         /\ history[1].outcome = "ok"
         /\ history[2].api = "issue.update"
         /\ call.args[1] \in ext.issues
         /\ locals.fetched = jsObject(Some(call.args[1]))
         /\ pending # undefined =>
              pending[1] = request("issue.update", call.args[1], call.args[2])
    /\ call.args[1] \notin ext.issues =>
         /\ Len(history) = 1
         /\ pc = "done" => result.kind = "throw"
    /\ history[1].outcome = "NotFound" => result = Thrown("NotFound")

\* the issue was fetched and its update is in flight
C18_Witness ==
  /\ Updating
  /\ pc = "updateIssue.update"
  /\ history[1].outcome = "ok"
  /\ locals.fetched = jsObject(Some("issue-1"))
  /\ pending[1] = request("issue.update", "issue-1", [title |-> "Updated title"])

\* C19: every step of a deleteIssue call keeps to fetch-then-delete: the
\* issue is requested by id, the delete is the second request, sent only
\* after the fetch succeeded and addressed to that issue. The call returns
\* only the value true, and only when both requests succeeded, the issue
\* then being gone; nothing else is ever removed; when the id does not
\* resolve the call throws NotFound having sent no delete.
C19_FetchDeleteTrue ==
  [][call'.op = "deleteIssue" =>
       /\ Len(history') \in {1, 2}
       /\ history'[1].api = "issue"
       /\ Len(history') = 2 =>
            /\ history'[1].outcome = "ok"
            /\ history'[2].api = "issue.delete"
            /\ pending' # undefined =>
                 pending'[1] = request("issue.delete", call'.args[1], <<>>)
       /\ result'.kind = "return" =>
            /\ result'.value = jsTrue
            /\ Len(history') = 2
            /\ history'[2].outcome = "ok"
            /\ call'.args[1] \in ext.issues
            /\ call'.args[1] \notin ext'.issues
       /\ ext' # ext =>
            /\ result' = Returned(jsTrue)
            /\ ext' = [ext EXCEPT !.issues = @ \ {call'.args[1]}]
       /\ history'[1].outcome = "NotFound" =>
            /\ result' = Thrown("NotFound")
            /\ Len(history') = 1
            /\ ext' = ext]_vars

\* the existing issue was fetched and deleted, and the call returned true
C19_Witness ==
  /\ call.op = "deleteIssue" /\ pc = "done"
  /\ call.args = <<"issue-1">>
  /\ Len(history) = 2
  /\ result = Returned(jsTrue)
  /\ ext.issues = {}

\* the issues of the account that a deleteIssue call has deleted so far
\* (under SpecGateway nothing else removes an issue and ids are not reused)
Deleted == PopulatedExt.issues \ ext.issues

\* C20: a deleteIssue call for an issue that an earlier deleteIssue call
\* deleted never returns: it throws without sending a delete, and what it
\* throws is NotFound whenever the external system answered the fetch.
C20_SecondDeleteFails ==
  [][(call'.op = "deleteIssue" /\ pc' = "done" /\ call'.args[1] \in Deleted) =>
       /\ result'.kind = "throw"
       /\ Len(history') = 1
       /\ history'[1].api = "issue"
       /\ result'.error = history'[1].outcome
       /\ result'.error \notin ClientErrors => result' = Thrown("NotFound")]_vars

\* issue-1 was deleted by an earlier call; deleting it again threw NotFound
C20_Witness ==
  /\ call.op = "deleteIssue" /\ pc = "done"
  /\ call.args = <<"issue-1">>
  /\ ncalls >= 2
  /\ "issue-1" \in Deleted
  /\ Len(history) = 1
  /\ result = Thrown("NotFound")

\* the call in flight or last completed is a getProjects call
FetchingProjects == call.op = "getProjects"

ProjectRequested == call.op = "createProject" /\ pending # undefined

ChildInFlight ==
  /\ Orchestrating
  /\ pending # undefined
  /\ history[Len(history)].kind = "child"

\* the requests the call has sent for issue templates
ChildRequests == {k \in 1..Len(history) : history[k].kind = "child"}

\* the issue templates of plan p, as pairs <<milestone, issue>>
TemplatesOf(p) ==
  UNION {{<<m, i>> : i \in 1..Len(p.milestones[m].issues)} :
           m \in 1..Len(p.milestones)}

\* C23: every request for an issue template is a createIssue with the
\* template's title and priority, its labels (none when it has none) and,
\* as description, the Detail Expander's text for the template's
\* description and the call's PlanParams, which starts with the Overview
\* of that description and is never the raw description; no template is
\* requested twice and a successful call has requested every template.
C23_ChildIssue ==
  /\ ChildInFlight =>
       LET last == history[Len(history)]
           template == GeneratedPlan.milestones[last.m].issues[last.i]
           params == pending[1].arg
           expanded == expandDescription(revision, template.description,
                                         call.args[2])
           head == "## Overview\n" \o template.description \o "\n\n## Context\n"
       IN  /\ pending[1].api = "createIssue"
           /\ params.title = template.title
           /\ params.priority = Some(template.priority)
           /\ params.labels = (IF "labels" \in DOMAIN template
                               THEN Some(template.labels) ELSE undefined)
           /\ params.description = Some(expanded)
           /\ params.description # Some(template.description)
           /\ SubSeq(params.description[1], 1, Len(head)) = head
  /\ Orchestrating =>
       Cardinality({<<history[k].m, history[k].i>> : k \in ChildRequests})
         = Cardinality(ChildRequests)
  /\ EveryCallSucceeded =>
       {<<history[k].m, history[k].i>> : k \in ChildRequests}
         = TemplatesOf(GeneratedPlan)

\* the issue of the second template of the first marketing milestone is
\* in flight, with its expanded description
C23_Witness ==
  /\ ChildInFlight
  /\ call.args[2].industry = Some("Digital Marketing")
  /\ history[Len(history)].m = 1 /\ history[Len(history)].i = 2
  /\ pending[1].arg.title = GeneratedPlan.milestones[1].issues[2].title
  /\ pending[1].arg.description # Some(GeneratedPlan.milestones[1].issues[2].description)
  /\ Len(pending[1].arg.description[1])
       > Len(GeneratedPlan.milestones[1].issues[2].description) + 100

\* an issue request (marker or child) of the call is in flight
IssueInFlight == MarkerInFlight \/ ChildInFlight

\* number of requests of the call that were answered with success
CountOk == Cardinality({k \in 1..Len(history) : history[k].outcome = "ok"})

\* C24: every issue request of a createProjectWithPlan call carries the
\* teamId given to the call and, as projectId, the non-empty id of the
\* project that the call's own first request created.
C24_IssuesBelongToProject ==
  IssueInFlight =>
    LET params == pending[1].arg
    IN  /\ params.teamId = call.args[1]
        /\ history[1].kind = "project" /\ history[1].outcome = "ok"
        /\ params.projectId # undefined
        /\ params.projectId[1] # ""
        /\ params.projectId = locals.projectResponse.id
        /\ params.projectId[1] \in ext.projects
        /\ params.projectId[1] = entityId(nextId - CountOk + 1)

\* the fourth request of a call (an issue of the first milestone) carries
\* the id of the project created by the first request
C24_Witness ==
  /\ ChildInFlight
  /\ Len(history) = 4
  /\ pending[1].arg.teamId = "team-1"
  /\ pending[1].arg.projectId = Some("id-1")
  /\ ext.projects = {"id-1"}
  /\ nextId = 3

\* ------------------------------------------------------------------------
\* Properties of concurrent orchestrations (checked under SpecConcurrent)
\* ------------------------------------------------------------------------

\* the invocation the event loop is running
Running ==
  [pc |-> pc, call |-> call, pending |-> pending, locals |-> locals,
   result |-> result, history |-> history]

\* the two invocations on the instance
Invocations == {Running, other}

\* the ids of the entities the client created on the requests of invocation c
CreatedFor(c) ==
  {c.history[k].created[1] :
     k \in {j \in 1..Len(c.history) :
              c.history[j].outcome = "ok" /\ c.history[j].created # undefined}}

\* the id the client answered with on the request of c for issue i of
\* milestone m (i = 0: the marker)
AnswerTo(c, m, i) ==
  LET k == CHOOSE j \in 1..Len(c.history) :
             /\ c.history[j].m = m /\ c.history[j].i = i
             /\ c.history[j].kind \in {"marker", "child"}
  IN  c.history[k].created

\* the ids of the issues a created-milestones accumulator holds
IdsIn(ms) ==
  UNION {{ms[m].milestone.id[1]} \cup {ms[m].issues[i].id[1] : i \in 1..Len(ms[m].issues)}
           : m \in 1..Len(ms)}

\* C25: with two createProjectWithPlan calls in flight on one instance and
\* their awaited steps interleaved, each call's accumulators hold only
\* issues created on that call's own requests, each call's issue requests
\* carry the id of that call's own project, and a call's result holds, for
\* every milestone and template of that call's plan and in the plan's
\* order, exactly the issue created on that call's request for it.
C25_CallsAreIsolated ==
  \A c \in Invocations :
    c.call.op = "createProjectWithPlan" =>
      LET p == createDetailedProjectPlan(revision, c.call.args[2])
          own == CreatedFor(c)
      IN  /\ IdsIn(c.locals.createdMilestones) \subseteq own
          /\ \A i \in 1..Len(c.locals.createdIssues) : c.locals.createdIssues[i].id[1] \in own
          /\ (c.pending # undefined /\ c.pending[1].api = "createIssue") =>
               /\ c.pending[1].arg.projectId = c.history[1].created
               /\ c.pending[1].arg.projectId[1] \in own
          /\ c.result.kind = "return" =>
               LET ms == c.result.value.milestones
               IN  /\ c.result.value.project.id = c.history[1].created
                   /\ Len(ms) = Len(p.milestones)
                   /\ \A m \in 1..Len(ms) :
                        /\ ms[m].milestone.id = AnswerTo(c, m, 0)
                        /\ Len(ms[m].issues) = Len(p.milestones[m].issues)
                        /\ \A i \in 1..Len(ms[m].issues) :
                             ms[m].issues[i].id = AnswerTo(c, m, i)
                   /\ IdsIn(ms) \cup {c.result.value.project.id[1]} = own

\* the first call has returned its result although the second call, started
\* after it, created its project and issues in between
C25_Witness ==
  /\ result.kind = "return"
  /\ call.args[2].projectName = "Acme Portal"
  /\ other.call.op = "createProjectWithPlan"
  /\ other.call.args[2].projectName = "Launch 2.0"
  /\ other.pending # undefined
  /\ Len(other.history) >= 3
  /\ switches = 2
  /\ "id-1" \in CreatedFor(Running)
  /\ "id-2" \in CreatedFor(other)
  /\ "id-3" \in CreatedFor(other)
  /\ "id-4" \in CreatedFor(Running)

\* ------------------------------------------------------------------------
\* Properties of the Detail Expander (checked under SpecExpand)
\* ------------------------------------------------------------------------

\* a generateDetailedIssueDescription call has completed
Expanded == call.op = "generateDetailedIssueDescription" /\ pc = "done"

\* the positions at which needle starts in s
Positions(s, needle) ==
  {i \in 1..(Len(s) - Len(needle) + 1) : SubSeq(s, i, i + Len(needle) - 1) = needle}

\* the least element of a non-empty set of numbers
Least(S) == CHOOSE i \in S : \A j \in S : i <= j

\* the text of s from position start up to the next "## " header line
SectionAt(s, start) ==
  LET later == {i \in Positions(s, "\n## ") : i >= start}
  IN  SubSeq(s, start, IF later = {} THEN Len(s) ELSE Least(later))

\* C26: the expander's output starts with "## Overview" followed by the
\* baseDescription verbatim, then holds "## Context" (whose section names
\* projectName and projectScope), then "## Technical Considerations" when
\* it is present, then "## Acceptance Criteria", then "## Additional
\* Resources", in this relative order, and each of these headers occurs at
\* most once.
C26_SectionOrder ==
  Expanded =>
    LET out == result.value
        base == call.args[1]
        params == call.args[2]
        overview == Positions(out, "## Overview")
        context == Positions(out, "## Context")
        technical == Positions(out, "## Technical Considerations")
        acceptance == Positions(out, "## Acceptance Criteria")
        resources == Positions(out, "## Additional Resources")
    IN  /\ overview = {1}
        /\ SubSeq(out, 1, Len("## Overview\n" \o base \o "\n")) = "## Overview\n" \o base \o "\n"
        /\ Cardinality(context) = 1
        /\ Least(context) > Len("## Overview\n" \o base)
        /\ includes(SectionAt(out, Least(context)), params.projectName)
        /\ includes(SectionAt(out, Least(context)), params.projectScope)
        /\ Cardinality(technical) <= 1
        /\ Cardinality(acceptance) = 1
        /\ Cardinality(resources) = 1
        /\ \A t \in technical : Least(context) < t /\ t < Least(acceptance)
        /\ Least(context) < Least(acceptance)
        /\ Least(acceptance) < Least(resources)

\* an output of the full revision with all five sections, the other
\* sections of that revision standing between them
C26_Witness ==
  /\ Expanded
  /\ revision = "full"
  /\ call.args[1] = "Set up the database schema"
  /\ call.args[2].projectScope = "brand refresh"
  /\ Positions(result.value, "## Technical Considerations") # {}
  /\ \E d \in Positions(result.value, "## Dependencies") :
       /\ Least(Positions(result.value, "## Acceptance Criteria")) < d
       /\ d < Least(Positions(result.value, "## Additional Resources"))

\* the k-th smallest element of a set of numbers
Nth(S, k) == CHOOSE i \in S : Cardinality({j \in S : j < i}) = k - 1

\* the bullet written for one technical requirement
BulletLine(req) == "- Consider " \o req \o " when implementing this task\n"

\* C27: the output holds the "## Technical Considerations" section exactly
\* when technicalRequirements is present and non-empty; the section then
\* holds one bullet per entry, in the entries' order, and nothing else;
\* otherwise neither the header nor any such bullet is in the output.
C27_TechnicalConsiderations ==
  Expanded =>
    LET out == result.value
        reqs == call.args[2].technicalRequirements
        technical == Positions(out, "## Technical Considerations")
    IN  /\ technical # {} <=> (reqs # undefined /\ Len(reqs[1]) > 0)
        /\ technical = {} => Positions(out, " when implementing this task") = {}
        /\ technical # {} =>
             LET section == SectionAt(out, Least(technical))
                 bullets == Positions(section, "\n- ")
             IN  /\ Cardinality(bullets) = Len(reqs[1])
                 /\ Cardinality(Positions(out, " when implementing this task")) = Len(reqs[1])
                 /\ \A k \in 1..Len(reqs[1]) :
                      LET at == Nth(bullets, k) + 1
                      IN  SubSeq(section, at, at + Len(BulletLine(reqs[1][k])) - 1)
                            = BulletLine(reqs[1][k])
                 /\ Len(section) = Len("## Technical Considerations\n")
                                   + Len(technicalBullets(reqs[1])) + 1

\* three requirements, given in an order that is not alphabetical
C27_Witness ==
  /\ Expanded
  /\ call.args[2].technicalRequirements = Some(<<"PostgreSQL", "React", "Redis">>)
  /\ LET section == SectionAt(result.value,
                              Least(Positions(result.value, "## Technical Considerations")))
     IN  /\ Cardinality(Positions(section, "\n- ")) = 3
         /\ Least(Positions(section, "PostgreSQL")) < Least(Positions(section, "React"))
         /\ Least(Positions(section, "React")) < Least(Positions(section, "Redis"))

\* the guidance blocks in table order: header, the keyword the
\* specification names, and the keywords the source tests
GuidanceBlocks ==
  <<[header |-> "### Database Work", keyword |-> "database",
     keywords |-> {"database", "schema"}],
    [header |-> "### API Development", keyword |-> "api",
     keywords |-> {"api", "endpoint"}],
    [header |-> "### UI Implementation", keyword |-> "ui",
     keywords |-> {"ui", "interface", "design", "frontend"}],
    [header |-> "### Testing Work", keyword |-> "test",
     keywords |-> {"test", "qa"}],
    [header |-> "### Security Considerations", keyword |-> "security",
     keywords |-> {"security", "auth"}]>>

\* the blocks of the output are in table order, each at most once
BlocksInTableOrder(out) ==
  /\ \A b \in 1..Len(GuidanceBlocks) :
       Cardinality(Positions(out, GuidanceBlocks[b].header)) <= 1
  /\ \A a, b \in 1..Len(GuidanceBlocks) :
       a < b =>
         \A x \in Positions(out, GuidanceBlocks[a].header),
            y \in Positions(out, GuidanceBlocks[b].header) : x < y

\* the example of the specification
DatabaseSchemaExample ==
  (Expanded /\ revision = "full" /\ call.args[1] = "Set up the database schema") =>
    /\ Positions(result.value, "### Database Work") # {}
    /\ Positions(result.value, "### API Development") = {}

\* C28 as stated: in the richer variant a block is in the output exactly
\* when its keyword (database, api, ui, test, security) occurs as a
\* substring of baseDescription; blocks are in table order.
C28_Original ==
  (Expanded /\ revision = "full") =>
    /\ \A b \in 1..Len(GuidanceBlocks) :
         Positions(result.value, GuidanceBlocks[b].header) # {}
           <=> Positions(call.args[1], GuidanceBlocks[b].keyword) # {}
    /\ BlocksInTableOrder(result.value)
    /\ DatabaseSchemaExample

\* C28 (amended): in the richer variant a block is in the output exactly
\* when one of its keywords (database or schema; api or endpoint; ui,
\* interface, design or frontend; test or qa; security or auth) occurs in
\* baseDescription with letter case ignored; the blocks are decided
\* independently, stand in table order whatever the keywords' order in the
\* text, and "Set up the database schema" yields Database Work and no API
\* Development.
C28_GuidanceBlocks ==
  (Expanded /\ revision = "full") =>
    /\ \A b \in 1..Len(GuidanceBlocks) :
         Positions(result.value, GuidanceBlocks[b].header) # {}
           <=> \E kw \in GuidanceBlocks[b].keywords :
                 ContainsIgnoringCase(call.args[1], kw)
    /\ BlocksInTableOrder(result.value)
    /\ DatabaseSchemaExample

\* all five blocks, for a text that names the keywords in another order
\* than the table's
C28_Witness ==
  /\ Expanded
  /\ revision = "full"
  /\ call.args[1] = "Verify the ui test against the api database security"
  /\ \A b \in 1..Len(GuidanceBlocks) :
       Positions(result.value, GuidanceBlocks[b].header) # {}
  /\ Least(Positions(call.args[1], "security")) > Least(Positions(call.args[1], "database"))
  /\ Least(Positions(call.args[1], "database")) > Least(Positions(call.args[1], "ui"))

\* ------------------------------------------------------------------------
\* Termination of the orchestration (checked under SpecResponsive)
\* ------------------------------------------------------------------------

\* a createProjectWithPlan call is suspended at an await
InFlight == Orchestrating /\ pc # "done"

\* a createProjectWithPlan call has completed: returned or thrown
Completed == Orchestrating /\ pc = "done" /\ result.kind \in {"return", "throw"}

\* 1 + milestones + issue templates of the plan of the call
RequestBound ==
  1 + Len(GeneratedPlan.milestones) + Cardinality(TemplatesOf(GeneratedPlan))

\* a step of the call in flight takes the response to its request
TakesResponse ==
  /\ pending # undefined
  /\ history'[Len(history)].outcome # "pending"
  /\ Len(history') \in {Len(history), Len(history) + 1}

\* C29: when every request is answered in the end, a createProjectWithPlan
\* call completes (returns or throws), having sent at most 1 + milestones +
\* issue templates requests; the call completes or sends a further request
\* only on taking the response to the request in flight, so without that
\* response it stays suspended and sends nothing.
C29_Terminates ==
  /\ InFlight ~> Completed
  /\ [](Orchestrating => Len(history) <= RequestBound)
  /\ [][InFlight => (TakesResponse /\ call' = call)]_vars

\* a call that completed after exactly 1 + milestones + templates requests
C29_Witness ==
  /\ Completed
  /\ result.kind = "return"
  /\ Len(history) = RequestBound
  /\ Len(history) > 20

\* the response is an object that carries a non-empty id
TruthyId(response) ==
  response.t = "object" /\ response.id # undefined /\ response.id[1] # ""

\* C30: once the project creation has been answered with a value, the call
\* goes on to issue creation exactly when the value is an object with a
\* truthy id; for a value that is not an object, is null, or has an empty
\* id the call has thrown the fixed project-id error and has sent no issue
\* request.
C30_ProjectIdGuard ==
  (Orchestrating /\ history[1].outcome = "ok") =>
    IF TruthyId(locals.projectResponse)
    THEN /\ Len(history) >= 2
         /\ history[2].api = "createIssue"
         /\ result # Thrown(ProjectIdError)
    ELSE /\ locals.projectResponse \in {jsString, jsNull, jsObject(Some("")), jsObject(undefined)}
         /\ pc = "done"
         /\ result = Thrown(ProjectIdError)
         /\ Len(history) = 1
         /\ CountApi("createIssue") = 0

\* the project creation was answered with an object whose id is empty
C30_Witness ==
  /\ Orchestrating /\ pc = "done"
  /\ history[1].outcome = "ok"
  /\ locals.projectResponse = jsObject(Some(""))
  /\ result = Thrown(ProjectIdError)
  /\ Len(history) = 1

====
